---- MODULE Spec2Model ----
(***************************************************************************)
(* core-gateway, the reverse proxy of the core0.4 services, and the        *)
(* handlers of core-auth (tenant membership, sessions, tokens) over their  *)
(* database.                                                               *)
(*                                                                         *)
(* Strings the code slices, joins or compares by prefix (paths, URLs) are  *)
(* sequences of one-character strings; identifiers (route names, header    *)
(* names, log messages) are plain strings.  A field that is absent, null   *)
(* or "" in the configuration JSON is the empty value of its type: the     *)
(* code tests these fields only by truthiness.                             *)
(***************************************************************************)
EXTENDS Integers, Sequences, FiniteSets, TLC

VARIABLES
    proc,           \* the node process: "starting", "listening", "exited", "crashed"
    exitCode,       \* process exit status once it has stopped, else 0
    currentConfig,  \* main(): let currentConfig, a reference into tables (0: unset)
    tables,         \* the table objects validateConfig has returned, by reference
    watching,       \* fs.watch succeeded
    reloads,        \* number of fs.watch callbacks run so far
    log,            \* logger output: sequence of [level, msg]
    req,            \* the proxy exchanges, by arrival order
    call,           \* one call of a pure function: its arguments and its result
    db,             \* core-auth's database: the rows of its tables, and the mail sent
    task            \* core-auth's handlers in flight: their locals and the next query

vars == <<proc, exitCode, currentConfig, tables, watching, reloads, log, req, call, db, task>>

----------------------------------------------------------------------------
(* Bounds *)

MaxRoutes == 3      \* routes per table when tables are enumerated
MaxLen == 4         \* longest URL given to applyRewrite
MaxReloads == 2     \* fs.watch callbacks in one run
MaxRequests == 2    \* proxy exchanges in one run
MaxChunks == 1      \* body chunks of one upstream response
MaxTasks == 2       \* core-auth requests handled in one run

----------------------------------------------------------------------------
(* String helpers (String.prototype.startsWith, slice, replace(/\/+$/, "")) *)

startsWith(s, p) == Len(p) <= Len(s) /\ SubSeq(s, 1, Len(p)) = p

slice(s, n) == SubSeq(s, n + 1, Len(s))

RECURSIVE stripTrailingSlashes(_)
stripTrailingSlashes(s) ==
    IF s # <<>> /\ s[Len(s)] = "/"
    THEN stripTrailingSlashes(SubSeq(s, 1, Len(s) - 1))
    ELSE s

\* All sequences over alphabet of length at most n.
RECURSIVE StrsUpTo(_, _)
StrsUpTo(alphabet, n) ==
    IF n = 0 THEN {<<>>}
    ELSE LET shorter == StrsUpTo(alphabet, n - 1)
         IN shorter \cup {Append(s, c) : s \in shorter, c \in alphabet}

----------------------------------------------------------------------------
(* joinUrl and applyRewrite *)

\* Variant: at most one trailing slash of base removed.
joinUrl_oneSlash(base, pathAndQuery) ==
    (IF base # <<>> /\ base[Len(base)] = "/"
     THEN SubSeq(base, 1, Len(base) - 1) ELSE base) \o pathAndQuery

\* core-gateway.js 13-15
joinUrl(base, pathAndQuery) == stripTrailingSlashes(base) \o pathAndQuery

\* A rewrite rule; present = FALSE is a route without a rewrite field, and
\* an empty stripPrefix or prepend is one that is not set.
NoRewrite == [present |-> FALSE, stripPrefix |-> <<>>, prepend |-> <<>>]

Rewrite(s, p) == [present |-> TRUE, stripPrefix |-> s, prepend |-> p]

\* Variant: the rest is not given a leading "/".
stripStep_noSlash(url, rewrite) ==
    IF rewrite.stripPrefix # <<>> /\ startsWith(url, rewrite.stripPrefix)
    THEN LET rest == slice(url, Len(rewrite.stripPrefix))
         IN IF rest = <<>> THEN <<"/">> ELSE rest
    ELSE url

\* core-gateway.js 22-27
stripStep(url, rewrite) ==
    IF rewrite.stripPrefix # <<>> /\ startsWith(url, rewrite.stripPrefix)
    THEN LET rest == slice(url, Len(rewrite.stripPrefix))
             u == IF rest = <<>> THEN <<"/">> ELSE rest
         IN IF ~startsWith(u, <<"/">>) THEN <<"/">> \o u ELSE u
    ELSE url

\* Variant: prepend keeps its trailing slashes.
prependStep_keepSlashes(url, rewrite) ==
    IF rewrite.prepend # <<>>
    THEN rewrite.prepend \o (IF startsWith(url, <<"/">>) THEN url ELSE <<"/">> \o url)
    ELSE url

\* core-gateway.js 29-32
prependStep(url, rewrite) ==
    IF rewrite.prepend # <<>>
    THEN stripTrailingSlashes(rewrite.prepend)
           \o (IF startsWith(url, <<"/">>) THEN url ELSE <<"/">> \o url)
    ELSE url

\* core-gateway.js 17-35
applyRewrite(originalUrl, rewrite) ==
    IF ~rewrite.present THEN originalUrl
    ELSE prependStep(stripStep(originalUrl, rewrite), rewrite)

----------------------------------------------------------------------------
(* Route tables: validateConfig and pickRoute *)

Route(n, t, p, b, rw) ==
    [name |-> n, match |-> [type |-> t, path |-> p],
     target |-> [baseUrl |-> b], rewrite |-> rw]

\* Insert route index i into a list of indices ordered by descending
\* match.path length, after every index that does not sort after it
\* (Array.prototype.sort is stable).
RECURSIVE insertSorted(_, _, _)
insertSorted(routes, sorted, i) ==
    IF sorted = <<>> THEN <<i>>
    ELSE IF Len(routes[i].match.path) - Len(routes[Head(sorted)].match.path) > 0
         THEN <<i>> \o sorted
         ELSE <<Head(sorted)>> \o insertSorted(routes, Tail(sorted), i)

RECURSIVE sortedUpTo(_, _)
sortedUpTo(routes, n) ==
    IF n = 0 THEN <<>>
    ELSE insertSorted(routes, sortedUpTo(routes, n - 1), n)

\* [...cfg.routes].sort((a, b) => b.match.path.length - a.match.path.length)
sortRoutes(routes) == sortedUpTo(routes, Len(routes))

RECURSIVE findFirst(_, _, _)
findFirst(routes, order, urlPath) ==
    IF order = <<>> THEN 0
    ELSE IF startsWith(urlPath, routes[Head(order)].match.path) THEN Head(order)
         ELSE findFirst(routes, Tail(order), urlPath)

RECURSIVE indices(_)
indices(n) == IF n = 0 THEN <<>> ELSE Append(indices(n - 1), n)

\* Variant: the first matching route in list order, without the sort.
pickRoute_unsorted(cfg, urlPath) ==
    findFirst(cfg.routes, indices(Len(cfg.routes)), urlPath)

\* Variant: cfg.routes.sort(...), which sorts the table's own list.
routesAfterPick_inPlace(routes) ==
    [i \in 1..Len(routes) |-> routes[sortRoutes(routes)[i]]]

\* core-gateway.js 128: what pickRoute leaves in cfg.routes; the sort works
\* on the copy [...cfg.routes].
routesAfterPick(routes) == routes

\* core-gateway.js 126-130.  The route object returned, as its position in
\* cfg.routes; 0 is null.
pickRoute(cfg, urlPath) ==
    findFirst(cfg.routes, sortRoutes(cfg.routes), urlPath)

----------------------------------------------------------------------------
(* Configuration: readJson and validateConfig *)

\* What reading and parsing the configuration file yields: the read throws
\* ("unreadable"), JSON.parse throws ("badjson"), or a JSON value.
NoValue == [isObject |-> FALSE, defaultTarget |-> [baseUrl |-> <<>>],
            routesIsArray |-> FALSE, routes |-> <<>>]

Unreadable == [kind |-> "unreadable", value |-> NoValue]
BadJson == [kind |-> "badjson", value |-> NoValue]
Json(v) == [kind |-> "json", value |-> v]

Config(d, isArr, rs) ==
    [isObject |-> TRUE, defaultTarget |-> [baseUrl |-> d],
     routesIsArray |-> isArr, routes |-> rs]

Ok(c) == [ok |-> TRUE, err |-> "", cfg |-> c]
Throw(e) == [ok |-> FALSE, err |-> e, cfg |-> [defaultTarget |-> [baseUrl |-> <<>>], routes |-> <<>>]]

\* Variant: only the first route is checked.
routeError_firstOnly(rs) ==
    IF rs = <<>> THEN ""
    ELSE LET r == Head(rs) IN
         IF r.name = "" THEN "Each route needs a name"
         ELSE IF r.match.type # "prefix" \/ r.match.path = <<>>
              THEN "Route needs match.type=prefix and match.path"
         ELSE IF r.target.baseUrl = <<>> THEN "Route needs target.baseUrl"
         ELSE ""

\* The error of the first route, in list order, that fails a check; "" if none.
RECURSIVE routeError(_)
routeError(rs) ==
    IF rs = <<>> THEN ""
    ELSE LET r == Head(rs) IN
         IF r.name = "" THEN "Each route needs a name"
         ELSE IF r.match.type # "prefix" \/ r.match.path = <<>>
              THEN "Route needs match.type=prefix and match.path"
         ELSE IF r.target.baseUrl = <<>> THEN "Route needs target.baseUrl"
         ELSE routeError(Tail(rs))

\* Variant: the routes are checked before defaultTarget.
validateConfig_routesFirst(cfg) ==
    IF ~cfg.isObject THEN Throw("Config must be an object")
    ELSE LET routes == IF cfg.routesIsArray THEN cfg.routes ELSE <<>>
         IN IF routeError(routes) # "" THEN Throw(routeError(routes))
            ELSE IF cfg.defaultTarget.baseUrl = <<>>
                 THEN Throw("Config.defaultTarget.baseUrl is required")
            ELSE Ok([defaultTarget |-> cfg.defaultTarget, routes |-> routes])

\* core-gateway.js 113-124
validateConfig(cfg) ==
    IF ~cfg.isObject THEN Throw("Config must be an object")
    ELSE IF cfg.defaultTarget.baseUrl = <<>>
         THEN Throw("Config.defaultTarget.baseUrl is required")
    ELSE LET routes == IF cfg.routesIsArray THEN cfg.routes ELSE <<>>
         IN IF routeError(routes) # "" THEN Throw(routeError(routes))
            ELSE Ok([defaultTarget |-> cfg.defaultTarget, routes |-> routes])

\* Variant: the parsed value is taken as the table without validateConfig.
loadConfig_unvalidated(file) ==
    IF file.kind = "unreadable" THEN Throw("ENOENT")
    ELSE IF file.kind = "badjson" THEN Throw("SyntaxError")
    ELSE Ok([defaultTarget |-> file.value.defaultTarget, routes |-> file.value.routes])

\* validateConfig(readJson(configPath))
loadConfig(file) ==
    IF file.kind = "unreadable" THEN Throw("ENOENT")
    ELSE IF file.kind = "badjson" THEN Throw("SyntaxError")
    ELSE validateConfig(file.value)

LogEntry(level, msg) == [level |-> level, msg |-> msg]

\* Variant: the parsed object is made current before it is validated.
reloadConfig_assignFirst(tabs, cur, file) ==
    LET load == loadConfig(file) IN
    IF file.kind = "json" /\ file.value.isObject
    THEN [tables |-> Append(tabs, [defaultTarget |-> file.value.defaultTarget,
                                    routes |-> file.value.routes]),
          currentConfig |-> Len(tabs) + 1,
          logged |-> IF load.ok THEN LogEntry("info", "Reloaded gateway config")
                     ELSE LogEntry("error", "Failed to reload config (keeping old config)")]
    ELSE [tables |-> tabs, currentConfig |-> cur,
          logged |-> LogEntry("error", "Failed to reload config (keeping old config)")]

\* Variant: the new content is written into the current table object.
reloadConfig_inPlace(tabs, cur, file) ==
    LET load == loadConfig(file) IN
    IF load.ok
    THEN [tables |-> [tabs EXCEPT ![cur] = load.cfg], currentConfig |-> cur,
          logged |-> LogEntry("info", "Reloaded gateway config")]
    ELSE [tables |-> tabs, currentConfig |-> cur,
          logged |-> LogEntry("error", "Failed to reload config (keeping old config)")]

\* Variant: the validated table is kept but not made current.
reloadConfig_notPublished(tabs, cur, file) ==
    LET load == loadConfig(file) IN
    IF load.ok
    THEN [tables |-> Append(tabs, load.cfg), currentConfig |-> cur,
          logged |-> LogEntry("info", "Reloaded gateway config")]
    ELSE [tables |-> tabs, currentConfig |-> cur,
          logged |-> LogEntry("error", "Failed to reload config (keeping old config)")]

\* core-gateway.js 148-154.  What one fs.watch callback leaves behind: the
\* table objects, the current reference and the line it logs.
reloadConfig(tabs, cur, file) ==
    LET load == loadConfig(file) IN
    IF load.ok
    THEN [tables |-> Append(tabs, load.cfg), currentConfig |-> Len(tabs) + 1,
          logged |-> LogEntry("info", "Reloaded gateway config")]
    ELSE [tables |-> tabs, currentConfig |-> cur,
          logged |-> LogEntry("error", "Failed to reload config (keeping old config)")]

----------------------------------------------------------------------------
(* Headers *)

\* String.prototype.toLowerCase on the header names that occur.
toLowerCase(name) ==
    CASE name = "Host" -> "host"
      [] name = "Connection" -> "connection"
      [] name = "Keep-Alive" -> "keep-alive"
      [] name = "TE" -> "te"
      [] name = "Upgrade" -> "upgrade"
      [] name = "Transfer-Encoding" -> "transfer-encoding"
      [] name = "Trailer" -> "trailer"
      [] name = "Proxy-Authorization" -> "proxy-authorization"
      [] name = "Proxy-Authenticate" -> "proxy-authenticate"
      [] name = "Location" -> "location"
      [] name = "Accept" -> "accept"
      [] name = "Content-Type" -> "content-type"
      [] name = "X-Forwarded-Host" -> "x-forwarded-host"
      [] name = "X-Forwarded-Proto" -> "x-forwarded-proto"
      [] name = "X-Empty" -> "x-empty"
      [] name = "Set-Cookie" -> "set-cookie"
      [] name = "Vary" -> "vary"
      [] OTHER -> name

\* A header value as node hands it over: a string, or an array of strings.
\* A string is a sequence of tokens; "" is <<>>.
Str(s) == [isArray |-> FALSE, items |-> <<s>>]
Arr(ss) == [isArray |-> TRUE, items |-> ss]

Header(n, v) == [name |-> n, value |-> v]

\* Array.prototype.join(",")
RECURSIVE join(_)
join(items) ==
    IF items = <<>> THEN <<>>
    ELSE IF Len(items) = 1 THEN items[1]
    ELSE items[1] \o <<",">> \o join(Tail(items))

EmptyHeaders == [n \in {} |-> <<>>]

\* Headers.prototype.set, res.setHeader: one value per lower-cased name.
setHeader(h, name, value) ==
    LET k == toLowerCase(name)
    IN [n \in DOMAIN h \cup {k} |-> IF n = k THEN value ELSE h[n]]

\* IncomingMessage.headers: names arrive lower-cased.
RECURSIVE lowerNames(_)
lowerNames(entries) ==
    IF entries = <<>> THEN <<>>
    ELSE <<Header(toLowerCase(Head(entries).name), Head(entries).value)>>
           \o lowerNames(Tail(entries))

\* Variant: te is missing from the list.
requestSkipped_noTe ==
    {"connection", "keep-alive", "proxy-authenticate", "proxy-authorization",
     "trailer", "transfer-encoding", "upgrade", "host"}

\* core-gateway.js 49-59
requestSkipped ==
    {"connection", "keep-alive", "proxy-authenticate", "proxy-authorization",
     "te", "trailer", "transfer-encoding", "upgrade", "host"}

\* core-gateway.js 80-89
responseSkipped ==
    {"connection", "keep-alive", "proxy-authenticate", "proxy-authorization",
     "te", "trailer", "transfer-encoding", "upgrade"}

\* core-gateway.js 46-63: the loop over Object.entries(req.headers)
RECURSIVE copyRequestHeaders(_, _)
copyRequestHeaders(h, entries) ==
    IF entries = <<>> THEN h
    ELSE LET k == Head(entries).name
             v == Head(entries).value
             falsy == ~v.isArray /\ v.items[1] = <<>>
         IN IF falsy \/ toLowerCase(k) \in requestSkipped
            THEN copyRequestHeaders(h, Tail(entries))
            ELSE copyRequestHeaders(
                     setHeader(h, k, IF v.isArray THEN join(v.items) ELSE v.items[1]),
                     Tail(entries))

\* req.headers.host || ""
hostOf(entries) ==
    IF \E i \in 1..Len(entries) : entries[i].name = "host"
    THEN LET i == CHOOSE i \in 1..Len(entries) : entries[i].name = "host"
         IN entries[i].value.items[1]
    ELSE <<>>

\* Variant: the forward headers are set before the copy, so that the copy
\* overwrites them with the client's.
upstreamHeaders_setFirst(inbound) ==
    LET entries == lowerNames(inbound.headers)
        forward == setHeader(setHeader(EmptyHeaders, "x-forwarded-proto",
                                       <<inbound.protocol>>),
                             "x-forwarded-host", hostOf(entries))
    IN copyRequestHeaders(forward, entries)

\* core-gateway.js 45-67: the Headers object given to fetch
upstreamHeaders(inbound) ==
    LET entries == lowerNames(inbound.headers)
        copied == copyRequestHeaders(EmptyHeaders, entries)
    IN setHeader(setHeader(copied, "x-forwarded-proto", <<inbound.protocol>>),
                 "x-forwarded-host", hostOf(entries))

\* The values of the entries named k (compared in lower case), in order.
RECURSIVE valuesOf(_, _)
valuesOf(entries, k) ==
    IF entries = <<>> THEN <<>>
    ELSE (IF toLowerCase(Head(entries).name) = k THEN <<Head(entries).value>> ELSE <<>>)
           \o valuesOf(Tail(entries), k)

\* The values of one name combined into one, separated by ", ".
RECURSIVE combine(_)
combine(values) ==
    IF Len(values) = 1 THEN values[1]
    ELSE values[1] \o <<", ">> \o combine(Tail(values))

\* core-gateway.js 78: what upstream.headers.forEach visits, from entry i of
\* the headers the upstream sent.  Names are lower-cased and each name is
\* visited with its values combined; set-cookie is visited once per value
\* when splitSetCookie (the Headers of node 18.14 and later), with its values
\* combined otherwise (earlier node 18).
RECURSIVE headersForEachFrom(_, _, _)
headersForEachFrom(entries, i, splitSetCookie) ==
    IF i > Len(entries) THEN <<>>
    ELSE LET k == toLowerCase(entries[i].name)
             first == \A j \in 1..(i - 1) : toLowerCase(entries[j].name) # k
             values == valuesOf(entries, k)
         IN (IF ~first THEN <<>>
             ELSE IF k = "set-cookie" /\ splitSetCookie
                  THEN [j \in 1..Len(values) |-> Header(k, values[j])]
                  ELSE <<Header(k, combine(values))>>)
              \o headersForEachFrom(entries, i + 1, splitSetCookie)

headersForEach(entries, splitSetCookie) == headersForEachFrom(entries, 1, splitSetCookie)

\* core-gateway.js 78-93: upstream.headers.forEach onto res
RECURSIVE copyResponseHeaders(_, _)
copyResponseHeaders(h, entries) ==
    IF entries = <<>> THEN h
    ELSE LET key == Head(entries).name
             value == Head(entries).value
         IN IF toLowerCase(key) \in responseSkipped
            THEN copyResponseHeaders(h, Tail(entries))
            ELSE copyResponseHeaders(setHeader(h, key, value), Tail(entries))

----------------------------------------------------------------------------
(* The handler's resolution and the fetch call *)

\* core-gateway.js 184-188
resolve(cfg, path) ==
    LET route == pickRoute(cfg, path)
    IN [route |-> route,
        baseUrl |-> IF route # 0 THEN cfg.routes[route].target.baseUrl
                    ELSE cfg.defaultTarget.baseUrl,
        rewrite |-> IF route # 0 THEN cfg.routes[route].rewrite ELSE NoRewrite]

\* core-gateway.js 42-43; req.originalUrl is the path followed by the query
targetUrlOf(inbound, baseUrl, rewrite) ==
    joinUrl(baseUrl, applyRewrite(inbound.path \o inbound.query, rewrite))

\* An upstream response: status, headers as sent, and its body; a null body
\* (204, 304, HEAD) has hasBody = FALSE.
Response(st, hs, hasBody, n) ==
    [status |-> st, headers |-> hs, hasBody |-> hasBody, chunks |-> n]

\* What the upstream behind a redirect answers.
Followed ==
    Response(200, <<Header("Content-Type", <<"text">>)>>, TRUE, 1)

isRedirect(up) ==
    /\ up.status \in 300..399
    /\ \E i \in 1..Len(up.headers) : toLowerCase(up.headers[i].name) = "location"

\* Variant: the default redirect mode of fetch.
fetchRedirect_follow == "follow"

\* core-gateway.js 74
fetchRedirect == "manual"

\* fetch(targetUrl, {redirect}): the response it resolves with and the
\* number of requests it has sent upstream.
fetch(redirect, up) ==
    IF redirect = "follow" /\ isRedirect(up)
    THEN [calls |-> 2, response |-> Followed]
    ELSE [calls |-> 1, response |-> up]

----------------------------------------------------------------------------
(* Proxy exchanges *)

Requests == 1..MaxRequests

NoInbound == [method |-> "", path |-> <<>>, query |-> <<>>, protocol |-> "",
              headers |-> <<>>]

NoResponse == Response(0, <<>>, FALSE, 0)

\* One exchange.  st: "idle", "forwarding" (awaiting fetch), "streaming",
\* "completed", "failed" (answered by the error handler), "aborted".
\* cfg is the table object the handler loaded into its local cfg; answered
\* is what the upstream answered to the first request sent to it and up the
\* response fetch resolved with; pulled counts the chunks taken from the
\* upstream body; seen is the number of fs.watch callbacks that had run
\* when the request arrived.

\* The ServerResponse: statusCode and headers as set, what has reached the
\* caller (status lines, body chunks, the end of the response), how many of
\* the chunks written are still buffered for a caller that has not taken
\* them, and whether
\* the connection is destroyed.
NoBody == [kind |-> "none", ok |-> FALSE, error |-> ""]

UpstreamBody == [kind |-> "upstream", ok |-> FALSE, error |-> ""]

FreshRes == [statusCode |-> 200, headers |-> EmptyHeaders, statusLines |-> 0,
             body |-> NoBody, chunks |-> 0, buffered |-> 0, ended |-> FALSE,
             destroyed |-> FALSE]

\* An error as thrown inside the pipeline: its message and its stack.
Error(message, stack) == [message |-> message, stack |-> stack]

NoError == Error("", "")

IdleReq == [st |-> "idle", inbound |-> NoInbound, cfg |-> 0, route |-> 0,
            baseUrl |-> <<>>, rewrite |-> NoRewrite, targetUrl |-> <<>>,
            upHeaders |-> EmptyHeaders, upCalls |-> 0, answered |-> NoResponse,
            up |-> NoResponse, pulled |-> 0, res |-> FreshRes,
            clientGone |-> FALSE, seen |-> 0, failure |-> NoError]

\* core-gateway.js 203: { ok: false, error: "bad gateway" }
BadGatewayBody == [kind |-> "json", ok |-> FALSE, error |-> "bad gateway"]

\* res.write / res.end on the response: nothing reaches a destroyed connection.
resWrite(res) ==
    IF res.destroyed THEN res
    ELSE [res EXCEPT !.statusLines = 1, !.body = UpstreamBody, !.chunks = @ + 1,
                     !.buffered = @ + 1]

resEnd(res) ==
    IF res.destroyed THEN res
    ELSE [res EXCEPT !.statusLines = 1, !.ended = TRUE]

\* core-gateway.js 202: logger.error("Unhandled error", { err: String(err), stack: err?.stack })
errorLog(err) ==
    [level |-> "error", msg |-> "Unhandled error", err |-> err.message, stack |-> err.stack]

\* Variant: the error's message is put into the body.
errorResponse_leaky(res, err) ==
    IF res.destroyed THEN [res EXCEPT !.statusCode = 502]
    ELSE [res EXCEPT !.statusCode = 502, !.statusLines = @ + 1,
                     !.body = [kind |-> "json", ok |-> FALSE, error |-> err.message],
                     !.ended = TRUE]

\* core-gateway.js 201-204: res.status(502).json({ ok: false, error: "bad gateway" })
errorResponse(res, err) ==
    IF res.destroyed THEN [res EXCEPT !.statusCode = 502]
    ELSE [res EXCEPT !.statusCode = 502, !.statusLines = @ + 1,
                     !.body = BadGatewayBody, !.ended = TRUE]

\* core-gateway.js 9-11: whether a rejection of the handler's promise is
\* passed to next(); if it is not, it is an unhandled rejection.
\* Variant: the handler is registered without the catch.
asyncHandlerCatches_not == FALSE

asyncHandlerCatches == TRUE

\* core-gateway.js 98-110: the promise pipeTo returns is neither awaited nor
\* given a rejection handler.
pipeToCaught == FALSE

\* Variant: the sink's abort answers with the error response instead.
sinkAbort_errorResponse(res) == errorResponse(res, NoError)

\* core-gateway.js 106-108: abort(err) { res.destroy(err) }
sinkAbort(res) == [res EXCEPT !.destroyed = TRUE]

\* node >= 15: an unhandled rejection ends the process with status 1.
Crash ==
    /\ proc' = "crashed"
    /\ exitCode' = 1

----------------------------------------------------------------------------
(* Inputs: configuration files, inbound requests, upstream responses *)

TableA ==
    Config(<<"W", "/">>, TRUE,
           <<Route("auth", "prefix", <<"/", "a">>, <<"U">>,
                   Rewrite(<<"/", "a">>, <<>>)),
             Route("deep", "prefix", <<"/", "a", "/", "b">>, <<"V", "/", "/">>,
                   Rewrite(<<>>, <<"/", "s", "/">>))>>)

TableB ==
    Config(<<"X", "/", "/">>, TRUE,
           <<Route("auth", "prefix", <<"/", "a">>, <<"Y">>, NoRewrite)>>)

\* routes is absent
NoRoutes == Config(<<"Z", "/">>, FALSE, <<>>)

NoDefault == Config(<<>>, TRUE, TableB.routes)

BadRoute ==
    Config(<<"X">>, TRUE,
           <<TableB.routes[1], Route("r", "exact", <<"/", "c">>, <<"Y">>, NoRewrite)>>)

ValidFiles == {Json(TableA), Json(TableB), Json(NoRoutes)}

InvalidFiles == {Unreadable, BadJson, Json(NoValue), Json(NoDefault), Json(BadRoute)}

ConfigFiles == ValidFiles \cup InvalidFiles

\* Two routes with the same name.
TableDup ==
    Config(<<"W">>, TRUE,
           <<Route("auth", "prefix", <<"/", "a">>, <<"U">>, NoRewrite),
             Route("auth", "prefix", <<"/", "b">>, <<"V">>, NoRewrite)>>)

LoadFiles == ConfigFiles \cup {Json(TableDup)}

Inbound(m, p, q, hs) ==
    [method |-> m, path |-> p, query |-> q, protocol |-> "http", headers |-> hs]

GetDeep ==
    Inbound("GET", <<"/", "a", "/", "b">>, <<>>,
            <<Header("Host", Str(<<"gw">>)),
              Header("Connection", Str(<<"keep-alive">>)),
              Header("Accept", Str(<<"any">>))>>)

GetOther ==
    Inbound("GET", <<"/", "c">>, <<"?", "q">>,
            <<Header("Host", Str(<<"gw">>)),
              Header("TE", Str(<<"trailers">>)),
              Header("Upgrade", Str(<<"h2c">>)),
              Header("X-Forwarded-Host", Str(<<"evil">>)),
              Header("X-Forwarded-Proto", Str(<<"https">>)),
              Header("X-Empty", Str(<<>>))>>)

\* Arrives over TLS and without a Host header.
PostAuth ==
    [Inbound("POST", <<"/", "a">>, <<>>,
             <<Header("Transfer-Encoding", Str(<<"chunked">>)),
               Header("Keep-Alive", Str(<<"5">>)),
               Header("Trailer", Str(<<"x">>)),
               Header("Proxy-Authorization", Str(<<"basic">>)),
               Header("Proxy-Authenticate", Str(<<"basic">>)),
               Header("Content-Type", Str(<<"json">>)),
               Header("Set-Cookie", Arr(<<<<"a">>, <<"b">>>>))>>)
       EXCEPT !.protocol = "https"]

Inbounds == {GetDeep, GetOther, PostAuth}

ReloadInbounds == {GetDeep, GetOther}

Up200 ==
    Response(200,
             <<Header("Content-Type", <<"text">>),
               Header("Connection", <<"close">>),
               Header("Transfer-Encoding", <<"chunked">>),
               Header("Keep-Alive", <<"5">>),
               Header("Host", <<"up">>)>>,
             TRUE, MaxChunks)

Up302 ==
    Response(302,
             <<Header("Location", <<"/", "n">>),
               Header("Upgrade", <<"h2c">>),
               Header("TE", <<"trailers">>),
               Header("Trailer", <<"x">>),
               Header("Proxy-Authenticate", <<"basic">>),
               Header("Proxy-Authorization", <<"basic">>)>>,
             TRUE, 0)

Up204 == Response(204, <<Header("Content-Type", <<"text">>)>>, FALSE, 0)

Upstreams == {Up200, Up302, Up204}

\* An answer that sets two cookies and has a second repeated header.
UpCookies ==
    Response(200,
             <<Header("Set-Cookie", <<"a=1">>),
               Header("Vary", <<"x">>),
               Header("Set-Cookie", <<"b=2">>),
               Header("Vary", <<"y">>),
               Header("Trailer", <<"x">>)>>,
             TRUE, 0)

HeaderUpstreams == {Up200, Up302, UpCookies}

\* A body of more chunks than the caller's connection buffers.
UpBig == Response(200, <<Header("Content-Type", <<"text">>)>>, TRUE, MaxChunks + 2)

\* The chunks a response buffers before res.write returns false.
writableHighWaterMark == 1

ReloadUpstreams == {Up204}

ProxyFiles == {Json(TableA)}

\* Rejections of fetch: the upstream refuses the connection, or its name
\* does not resolve.
Refused == Error("connect ECONNREFUSED U", "at fetch (node:internal)")

NotFound == Error("getaddrinfo ENOTFOUND V", "at lookup (node:dns)")

Errors == {Refused, NotFound}

ProxyErrors == {Refused}

----------------------------------------------------------------------------
(* The health route *)

\* The letters of a path in lower case (the route's pattern is matched
\* without regard to case).
lowerChar(c) ==
    CASE c = "H" -> "h"
      [] c = "E" -> "e"
      [] c = "A" -> "a"
      [] c = "L" -> "l"
      [] c = "T" -> "t"
      [] OTHER -> c

lowerPath(path) == [i \in 1..Len(path) |-> lowerChar(path[i])]

healthPath == <<"/", "h", "e", "a", "l", "t", "h">>

\* Variant: only GET and only the path as written.
matchesHealth_exact(method, path) == method = "GET" /\ path = healthPath

\* core-gateway.js 177: app.get("/health", ...) under express's default
\* routing: a HEAD request is served by the GET route when no HEAD route is
\* registered, the pattern ignores case, and one trailing slash is optional.
matchesHealth(method, path) ==
    /\ method \in {"GET", "HEAD"}
    /\ \/ lowerPath(path) = healthPath
       \/ lowerPath(path) = Append(healthPath, "/")

\* core-gateway.js 133
serviceName == "core-gateway"

\* core-gateway.js 178: { ok: true, service: serviceName, time: nowIso() }
HealthBody == [kind |-> "json", ok |-> TRUE, service |-> serviceName, time |-> "nowIso"]

\* core-gateway.js 178: res.json(...); the answer to HEAD has no body
healthResponse(res, method) ==
    [res EXCEPT !.statusLines = 1,
                !.body = IF method = "HEAD" THEN NoBody ELSE HealthBody,
                !.ended = TRUE]

Health(m, p, q) == Inbound(m, p, q, <<Header("Host", Str(<<"gw">>))>>)

HealthInbounds ==
    {Health("GET", healthPath, <<>>),
     Health("GET", healthPath, <<"?", "q">>),
     Health("HEAD", healthPath, <<>>),
     Health("POST", healthPath, <<>>),
     Health("GET", Append(healthPath, "/"), <<>>),
     Health("GET", <<"/", "H", "e", "a", "l", "t", "h">>, <<>>),
     Health("GET", Append(healthPath, "z"), <<>>),
     Health("GET", healthPath \o <<"/", "x">>, <<>>),
     Health("GET", <<"/">>, <<>>)}

\* Tables with a route whose match.path is a prefix of /health, is /health,
\* or extends it.
TableH ==
    Config(<<"W">>, TRUE,
           <<Route("root", "prefix", <<"/">>, <<"U">>, NoRewrite),
             Route("health", "prefix", healthPath, <<"V">>, NoRewrite)>>)

TableHx ==
    Config(<<"W">>, TRUE,
           <<Route("he", "prefix", <<"/", "h", "e">>, <<"U">>, NoRewrite),
             Route("sub", "prefix", Append(healthPath, "/"), <<"V">>, NoRewrite)>>)

HealthFiles == {Json(TableH), Json(TableHx), Json(NoRoutes)}

----------------------------------------------------------------------------
(* The process: startup, hot reload, and the proxy pipeline *)

NoCall == [fn |-> "", done |-> FALSE]

\* core-auth is a process of its own; the gateway's runs leave it aside.
NoDb == [tenantUser |-> <<>>, user |-> <<>>, session |-> {}, mail |-> {}, issued |-> 0]

NoTask == [op |-> "", pc |-> "idle", status |-> 0]

Tasks == 1..MaxTasks

NoAuth ==
    /\ db = NoDb
    /\ task = [t \in Tasks |-> NoTask]

Init ==
    /\ proc = "starting"
    /\ exitCode = 0
    /\ currentConfig = 0
    /\ tables = <<>>
    /\ watching = FALSE
    /\ reloads = 0
    /\ log = <<>>
    /\ req = [r \in Requests |-> IdleReq]
    /\ call = NoCall
    /\ NoAuth

\* core-gateway.js 132-158, 206-212: main() up to app.listen; file is what
\* readJson finds and watchOk whether fs.watch can be established
Startup(file, watchOk) ==
    /\ proc = "starting"
    /\ LET load == loadConfig(file) IN
       IF load.ok
       THEN /\ tables' = <<load.cfg>>
            /\ currentConfig' = 1
            /\ watching' = watchOk
            /\ log' = log \o <<LogEntry("info", "Loaded gateway config")>>
                        \o (IF watchOk THEN <<>>
                            ELSE <<LogEntry("warn", "Config file watch not available")>>)
            /\ proc' = "listening"
            /\ UNCHANGED exitCode
       ELSE /\ proc' = "exited"
            /\ exitCode' = 1
            /\ UNCHANGED <<tables, currentConfig, watching, log>>
    /\ UNCHANGED <<reloads, req, call, db, task>>

\* Variant: the callback runs although fs.watch did not register it.
WatchCallback_unwatched(file) ==
    /\ proc = "listening"
    /\ reloads < MaxReloads
    /\ LET out == reloadConfig(tables, currentConfig, file) IN
         /\ tables' = out.tables
         /\ currentConfig' = out.currentConfig
         /\ log' = Append(log, out.logged)
    /\ reloads' = reloads + 1
    /\ UNCHANGED <<proc, exitCode, watching, req, call, db, task>>

\* core-gateway.js 147-155: the fs.watch callback; file is what it reads
WatchCallback(file) ==
    /\ proc = "listening"
    /\ watching
    /\ reloads < MaxReloads
    /\ LET out == reloadConfig(tables, currentConfig, file) IN
         /\ tables' = out.tables
         /\ currentConfig' = out.currentConfig
         /\ log' = Append(log, out.logged)
    /\ reloads' = reloads + 1
    /\ UNCHANGED <<proc, exitCode, watching, req, call, db, task>>

\* core-gateway.js 177-179: the health route answers a request it matches;
\* the request does not reach the proxy handler
HealthCheck(r, inbound) ==
    /\ proc = "listening"
    /\ req[r].st = "idle"
    /\ \A q \in Requests : q < r => req[q].st # "idle"
    /\ matchesHealth(inbound.method, inbound.path)
    /\ req' = [req EXCEPT ![r] =
                 [IdleReq EXCEPT !.st = "completed",
                                 !.inbound = inbound,
                                 !.res = healthResponse(@, inbound.method),
                                 !.seen = reloads]]
    /\ UNCHANGED <<proc, exitCode, currentConfig, tables, watching, reloads, log, call, db, task>>

\* core-gateway.js 183-196 and 38-75: the handler up to the await of fetch;
\* a request the health route matches does not get here
Receive(r, inbound) ==
    /\ proc = "listening"
    /\ req[r].st = "idle"
    /\ \A q \in Requests : q < r => req[q].st # "idle"
    /\ ~matchesHealth(inbound.method, inbound.path)
    /\ LET cfg == tables[currentConfig]
           rs == resolve(cfg, inbound.path)
       IN req' = [req EXCEPT ![r] =
                    [IdleReq EXCEPT !.st = "forwarding",
                                    !.inbound = inbound,
                                    !.cfg = currentConfig,
                                    !.route = rs.route,
                                    !.baseUrl = rs.baseUrl,
                                    !.rewrite = rs.rewrite,
                                    !.targetUrl = targetUrlOf(inbound, rs.baseUrl, rs.rewrite),
                                    !.upHeaders = upstreamHeaders(inbound),
                                    !.upCalls = 1,
                                    !.seen = reloads]]
    /\ tables' = [tables EXCEPT ![currentConfig].routes = routesAfterPick(@)]
    /\ UNCHANGED <<proc, exitCode, currentConfig, watching, reloads, log, call, db, task>>

\* core-gateway.js 69-110: fetch resolves with the upstream's response;
\* splitSetCookie is how the Headers of the node at hand iterates set-cookie
FetchResolves(r, up) ==
    /\ proc = "listening"
    /\ req[r].st = "forwarding"
    /\ \E splitSetCookie \in BOOLEAN :
         LET f == fetch(fetchRedirect, up)
             resp == f.response
             res == [req[r].res EXCEPT
                       !.statusCode = resp.status,
                       !.headers = copyResponseHeaders(
                                       @, headersForEach(resp.headers, splitSetCookie))]
         IN req' = [req EXCEPT ![r].answered = up,
                               ![r].up = resp,
                               ![r].upCalls = f.calls,
                               ![r].res = IF resp.hasBody THEN res ELSE resEnd(res),
                               ![r].st = IF resp.hasBody THEN "streaming" ELSE "completed"]
    /\ UNCHANGED <<proc, exitCode, currentConfig, tables, watching, reloads, log, call, db, task>>

\* Variant: a rejected fetch is issued again.
FetchFails_retry(r, err) ==
    /\ proc = "listening"
    /\ req[r].st = "forwarding"
    /\ req[r].upCalls <= MaxRequests
    /\ req' = [req EXCEPT ![r].upCalls = @ + 1]
    /\ UNCHANGED <<proc, exitCode, currentConfig, tables, watching, reloads, log, call, db, task>>

\* core-gateway.js 69, 10, 201-204: fetch rejects with err before any response
FetchFails(r, err) ==
    /\ proc = "listening"
    /\ req[r].st = "forwarding"
    /\ IF asyncHandlerCatches
       THEN /\ log' = Append(log, errorLog(err))
            /\ req' = [req EXCEPT ![r].st = "failed",
                                  ![r].failure = err,
                                  ![r].res = errorResponse(@, err)]
            /\ UNCHANGED <<proc, exitCode>>
       ELSE /\ req' = [req EXCEPT ![r].st = "failed", ![r].failure = err]
            /\ Crash
            /\ UNCHANGED log
    /\ UNCHANGED <<currentConfig, tables, watching, reloads, call, db, task>>

\* core-gateway.js 100-102: the sink's write
StreamChunk(r) ==
    /\ proc = "listening"
    /\ req[r].st = "streaming"
    /\ req[r].pulled < req[r].up.chunks
    /\ req' = [req EXCEPT ![r].pulled = @ + 1, ![r].res = resWrite(@)]
    /\ UNCHANGED <<proc, exitCode, currentConfig, tables, watching, reloads, log, call, db, task>>

\* core-gateway.js 103-105: the sink's close
StreamClose(r) ==
    /\ proc = "listening"
    /\ req[r].st = "streaming"
    /\ req[r].pulled = req[r].up.chunks
    /\ req' = [req EXCEPT ![r].st = "completed", ![r].res = resEnd(@)]
    /\ UNCHANGED <<proc, exitCode, currentConfig, tables, watching, reloads, log, call, db, task>>

\* core-gateway.js 98-110: the upstream body errors; the sink's abort runs
\* and the promise pipeTo returned rejects
StreamError(r) ==
    /\ proc = "listening"
    /\ req[r].st = "streaming"
    /\ req' = [req EXCEPT ![r].st = "aborted", ![r].res = sinkAbort(@)]
    /\ IF pipeToCaught THEN UNCHANGED <<proc, exitCode>> ELSE Crash
    /\ UNCHANGED <<currentConfig, tables, watching, reloads, log, call, db, task>>

\* The caller's connection takes one of the chunks buffered for it.
ClientReads(r) ==
    /\ proc = "listening"
    /\ req[r].res.buffered > 0
    /\ ~req[r].res.destroyed
    /\ req' = [req EXCEPT ![r].res.buffered = @ - 1]
    /\ UNCHANGED <<proc, exitCode, currentConfig, tables, watching, reloads, log, call, db, task>>

\* The caller closes its connection while the exchange is in progress.
ClientDisconnect(r) ==
    /\ proc = "listening"
    /\ req[r].st \in {"forwarding", "streaming"}
    /\ ~req[r].clientGone
    /\ req' = [req EXCEPT ![r].clientGone = TRUE, ![r].res.destroyed = TRUE]
    /\ UNCHANGED <<proc, exitCode, currentConfig, tables, watching, reloads, log, call, db, task>>

Next ==
    \/ \E file \in ConfigFiles, watchOk \in BOOLEAN : Startup(file, watchOk)
    \/ \E file \in ConfigFiles : WatchCallback(file)
    \/ \E r \in Requests, inbound \in HealthInbounds : HealthCheck(r, inbound)
    \/ \E r \in Requests, inbound \in Inbounds \cup HealthInbounds : Receive(r, inbound)
    \/ \E r \in Requests, up \in Upstreams : FetchResolves(r, up)
    \/ \E r \in Requests, err \in Errors : FetchFails(r, err)
    \/ \E r \in Requests : StreamChunk(r)
    \/ \E r \in Requests : StreamClose(r)
    \/ \E r \in Requests : StreamError(r)
    \/ \E r \in Requests : ClientDisconnect(r)
    \/ \E r \in Requests : ClientReads(r)

Spec == Init /\ [][Next]_vars

\* The configuration life cycle: startup and hot reload under every file
\* content, with exchanges whose upstream answers without a body.
NextReload ==
    \/ \E file \in ConfigFiles, watchOk \in BOOLEAN : Startup(file, watchOk)
    \/ \E file \in ConfigFiles : WatchCallback(file)
    \/ \E r \in Requests, inbound \in ReloadInbounds : Receive(r, inbound)
    \/ \E r \in Requests, up \in ReloadUpstreams : FetchResolves(r, up)

SpecReload == Init /\ [][NextReload]_vars

\* Loading alone: startup and hot reload under every file content.
NextLoad ==
    \/ \E file \in LoadFiles, watchOk \in BOOLEAN : Startup(file, watchOk)
    \/ \E file \in LoadFiles : WatchCallback(file)

SpecLoad == Init /\ [][NextLoad]_vars

\* The proxy pipeline: every inbound request and upstream behaviour, under
\* the table loaded at startup.
NextProxy ==
    \/ \E file \in ProxyFiles : Startup(file, TRUE)
    \/ \E r \in Requests, inbound \in Inbounds : Receive(r, inbound)
    \/ \E r \in Requests, up \in Upstreams : FetchResolves(r, up)
    \/ \E r \in Requests, err \in ProxyErrors : FetchFails(r, err)
    \/ \E r \in Requests : StreamChunk(r)
    \/ \E r \in Requests : StreamClose(r)
    \/ \E r \in Requests : StreamError(r)
    \/ \E r \in Requests : ClientDisconnect(r)

SpecProxy == Init /\ [][NextProxy]_vars

\* The header copies of both directions, up to the relay of the upstream's
\* status and headers.
NextHeaders ==
    \/ \E file \in ProxyFiles : Startup(file, TRUE)
    \/ \E r \in Requests, inbound \in Inbounds : Receive(r, inbound)
    \/ \E r \in Requests, up \in HeaderUpstreams : FetchResolves(r, up)

SpecHeaders == Init /\ [][NextHeaders]_vars

\* The relay of a long body to a caller that reads at its own pace.
NextStream ==
    \/ \E file \in ProxyFiles : Startup(file, TRUE)
    \/ \E r \in Requests : Receive(r, GetDeep)
    \/ \E r \in Requests : FetchResolves(r, UpBig)
    \/ \E r \in Requests : StreamChunk(r)
    \/ \E r \in Requests : StreamClose(r)
    \/ \E r \in Requests : ClientReads(r)

SpecStream == Init /\ [][NextStream]_vars

\* Exchanges that fail before the upstream answers, with different errors.
NextErrors ==
    \/ \E file \in ProxyFiles : Startup(file, TRUE)
    \/ \E r \in Requests, inbound \in Inbounds : Receive(r, inbound)
    \/ \E r \in Requests, up \in ReloadUpstreams : FetchResolves(r, up)
    \/ \E r \in Requests, err \in Errors : FetchFails(r, err)
    \/ \E r \in Requests : ClientDisconnect(r)

SpecErrors == Init /\ [][NextErrors]_vars

\* Dispatch between the health route and the proxy handler, under tables
\* whose routes cover /health.
NextHealth ==
    \/ \E file \in HealthFiles : Startup(file, TRUE)
    \/ \E r \in Requests, inbound \in HealthInbounds : HealthCheck(r, inbound)
    \/ \E r \in Requests, inbound \in HealthInbounds : Receive(r, inbound)
    \/ \E r \in Requests, up \in ReloadUpstreams : FetchResolves(r, up)

SpecHealth == Init /\ [][NextHealth]_vars

----------------------------------------------------------------------------
(* Single calls of the pure functions *)

Boot ==
    /\ proc = "starting"
    /\ exitCode = 0
    /\ currentConfig = 0
    /\ tables = <<>>
    /\ watching = FALSE
    /\ reloads = 0
    /\ log = <<>>
    /\ req = [r \in Requests |-> IdleReq]

Alphabet == {"/", "a"}

PickPaths ==
    {<<"/">>, <<"/", "a">>, <<"/", "A">>, <<"/", "a", "/">>, <<"/", "a", "b">>}

PickUrls ==
    {<<>>, <<"/">>, <<"/", "a">>, <<"/", "A">>, <<"/", "b">>, <<"/", "a", "/">>,
     <<"/", "a", "b">>, <<"/", "a", "/", "b">>, <<"/", "a", "b", "/", "c">>,
     <<"/", "A", "b">>}

\* Validated tables of at most MaxRoutes routes with match.path in PickPaths.
PickTables ==
    {[defaultTarget |-> [baseUrl |-> <<"W">>],
      routes |-> [i \in 1..Len(f) |-> Route("r", "prefix", f[i], <<"U">>, NoRewrite)]] :
        f \in UNION {[1..n -> PickPaths] : n \in 0..MaxRoutes}}

InitPick ==
    /\ Boot
    /\ NoAuth
    /\ call \in {[fn |-> "pickRoute", cfg |-> t, urlPath |-> u, done |-> FALSE, ret |-> 0] :
                    t \in PickTables, u \in PickUrls}

CallPickRoute ==
    /\ call.fn = "pickRoute"
    /\ ~call.done
    /\ call' = [call EXCEPT !.done = TRUE, !.ret = pickRoute(call.cfg, call.urlPath)]
    /\ UNCHANGED <<proc, exitCode, currentConfig, tables, watching, reloads, log, req, db, task>>

SpecPick == InitPick /\ [][CallPickRoute]_vars

RewriteRules ==
    {NoRewrite} \cup
    {Rewrite(s, p) : s \in StrsUpTo(Alphabet, MaxLen - 2), p \in StrsUpTo(Alphabet, MaxLen - 2)}

InitRewrite ==
    /\ Boot
    /\ NoAuth
    /\ call \in {[fn |-> "applyRewrite", url |-> u, rewrite |-> rw, done |-> FALSE, ret |-> <<>>] :
                    u \in StrsUpTo(Alphabet, MaxLen), rw \in RewriteRules}

CallApplyRewrite ==
    /\ call.fn = "applyRewrite"
    /\ ~call.done
    /\ call' = [call EXCEPT !.done = TRUE, !.ret = applyRewrite(call.url, call.rewrite)]
    /\ UNCHANGED <<proc, exitCode, currentConfig, tables, watching, reloads, log, req, db, task>>

SpecRewrite == InitRewrite /\ [][CallApplyRewrite]_vars

\* Route objects as a configuration file may hold them: complete, or with
\* one or two of the checked fields missing or wrong.
RouteInputs ==
    {Route("r", "prefix", <<"/", "a">>, <<"U">>, NoRewrite),
     Route("", "prefix", <<"/", "a">>, <<"U">>, NoRewrite),
     Route("r", "exact", <<"/", "a">>, <<"U">>, NoRewrite),
     Route("r", "prefix", <<>>, <<"U">>, NoRewrite),
     Route("r", "prefix", <<"/", "a">>, <<>>, NoRewrite),
     Route("", "", <<>>, <<>>, NoRewrite)}

\* Parsed configurations: a value that is no object, and objects with or
\* without defaultTarget.baseUrl whose routes field is a list of at most
\* MaxRoutes route objects or something that is not a list.
ValidateInputs ==
    {NoValue} \cup
    {Config(d, isArr, rs) :
        d \in {<<>>, <<"W">>},
        isArr \in BOOLEAN,
        rs \in UNION {[1..n -> RouteInputs] : n \in 0..MaxRoutes}}

InitValidate ==
    /\ Boot
    /\ NoAuth
    /\ call \in {[fn |-> "validateConfig", cfg |-> c, done |-> FALSE, ret |-> Throw("")] :
                    c \in ValidateInputs}

CallValidateConfig ==
    /\ call.fn = "validateConfig"
    /\ ~call.done
    /\ call' = [call EXCEPT !.done = TRUE, !.ret = validateConfig(call.cfg)]
    /\ UNCHANGED <<proc, exitCode, currentConfig, tables, watching, reloads, log, req, db, task>>

SpecValidate == InitValidate /\ [][CallValidateConfig]_vars

----------------------------------------------------------------------------
(* core-auth: tenant membership (core-auth-tenant.js) *)

\* Each action below is one query reaching the database together with the
\* handler's code from that query's result to its next query or response;
\* between two queries of a handler, queries of other handlers may run.

\* core-auth-tenant.js 10-11
PRIVILEGED_ROLES == {"owner", "administrator"}

ALL_ROLES == {"owner", "administrator", "users"}

Users == {"a", "b", "c"}

\* A row of core_tenant_user of the one tenant.
Member(role, deactivated) == [role |-> role, deactivated |-> deactivated]

\* core-auth-tenant.js 21-37
isTenantAdministrator(d, userEmail) ==
    /\ d.tenantUser[userEmail].role \in PRIVILEGED_ROLES
    /\ ~d.tenantUser[userEmail].deactivated

\* core-auth-tenant.js 39-53
getActivePrivilegedCount(d) ==
    Cardinality({u \in Users : /\ d.tenantUser[u].role \in PRIVILEGED_ROLES
                               /\ ~d.tenantUser[u].deactivated})

\* A /user/update or /user/deactivate request of an authenticated user.
TenantCall(op, actor, target, role) ==
    [op |-> op, actor |-> actor, target |-> target, role |-> role]

TenantCalls ==
    {TenantCall("deactivate", "a", "b", ""),
     TenantCall("deactivate", "b", "a", ""),
     TenantCall("deactivate", "a", "c", ""),
     TenantCall("deactivate", "c", "a", ""),
     TenantCall("update", "a", "b", "users"),
     TenantCall("update", "b", "a", "users"),
     TenantCall("update", "b", "b", "owner"),
     TenantCall("update", "a", "c", "administrator")}

\* An owner, an administrator and a plain user, all active.
TenantDb ==
    [NoDb EXCEPT !.tenantUser = [u \in Users |->
        IF u = "a" THEN Member("owner", FALSE)
        ELSE IF u = "b" THEN Member("administrator", FALSE)
        ELSE Member("users", FALSE)]]

InitTenant ==
    /\ Boot
    /\ call = NoCall
    /\ db = TenantDb
    /\ task = [t \in Tasks |-> NoTask]

respond(t, status) == [task EXCEPT ![t].pc = "done", ![t].status = status]

\* core-auth-tenant.js 282-300, 351-363: the handler starts and its
\* tenant.isAdmin query runs
TenantIsAdmin(t, c) ==
    /\ task[t].pc = "idle"
    /\ \A q \in Tasks : q < t => task[q].pc # "idle"
    /\ LET started == [op |-> c.op, pc |-> "lookup", status |-> 0, actor |-> c.actor,
                       target |-> c.target, role |-> c.role, currentRole |-> ""]
       IN task' = [task EXCEPT ![t] =
                     IF isTenantAdministrator(db, c.actor) THEN started
                     ELSE [started EXCEPT !.pc = "done", !.status = 403]]
    /\ UNCHANGED <<proc, exitCode, currentConfig, tables, watching, reloads, log, req, call, db>>

\* core-auth-tenant.js 302-328, 365-390: the lookup of the target's active
\* membership, and whether the privileged count has to be asked for
TenantLookup(t) ==
    /\ task[t].pc = "lookup"
    /\ LET row == db.tenantUser[task[t].target]
           guarded == IF task[t].op = "update"
                      THEN row.role \in PRIVILEGED_ROLES /\ task[t].role \notin PRIVILEGED_ROLES
                      ELSE row.role \in PRIVILEGED_ROLES
       IN task' = IF row.deactivated THEN respond(t, 404)
                  ELSE [task EXCEPT ![t].currentRole = row.role,
                                    ![t].pc = IF guarded THEN "count" ELSE "updateRow"]
    /\ UNCHANGED <<proc, exitCode, currentConfig, tables, watching, reloads, log, req, call, db>>

\* core-auth-tenant.js 323-327, 385-389: tenant.privilegedCount and the
\* refusal to remove the last privileged member
TenantPrivilegedCount(t) ==
    /\ task[t].pc = "count"
    /\ task' = IF getActivePrivilegedCount(db) <= 1 THEN respond(t, 409)
               ELSE [task EXCEPT ![t].pc = "updateRow"]
    /\ UNCHANGED <<proc, exitCode, currentConfig, tables, watching, reloads, log, req, call, db>>

\* core-auth-tenant.js 330-342, 392-404: the UPDATE of the target's active
\* row, and the answer
TenantUpdateRow(t) ==
    /\ task[t].pc = "updateRow"
    /\ LET u == task[t].target
           row == db.tenantUser[u]
       IN db' = IF row.deactivated THEN db
                ELSE IF task[t].op = "update"
                     THEN [db EXCEPT !.tenantUser[u].role = task[t].role]
                     ELSE [db EXCEPT !.tenantUser[u].deactivated = TRUE]
    /\ task' = respond(t, 200)
    /\ UNCHANGED <<proc, exitCode, currentConfig, tables, watching, reloads, log, req, call>>

NextTenant ==
    \/ \E t \in Tasks, c \in TenantCalls : TenantIsAdmin(t, c)
    \/ \E t \in Tasks : TenantLookup(t)
    \/ \E t \in Tasks : TenantPrivilegedCount(t)
    \/ \E t \in Tasks : TenantUpdateRow(t)

SpecTenant == InitTenant /\ [][NextTenant]_vars

----------------------------------------------------------------------------
(* core-auth: tokens of core_user (core-auth-user.js) *)

\* part_000 20-22: a digest, told apart from the token it was made of
sha256Hex(input) == <<"sha256", input>>

\* A null column.
Null == <<>>

\* part_000 24-26: tokens are fresh; the n-th one made is n
randomToken(d) == d.issued + 1

\* A token nobody was ever sent.
BadToken == 0

\* A row of core_user: activated and deactivated say whether the timestamp
\* is set, token_expiry is "null", "future" or "past" relative to now().
User(activated, deactivated, token_hash, token_expiry, password_hash) ==
    [activated |-> activated, deactivated |-> deactivated, token_hash |-> token_hash,
     token_expiry |-> token_expiry, password_hash |-> password_hash]

\* core-auth-user.js 602: bcrypt.hash
bcryptHash(password) == <<"bcrypt", password.text>>

Password(text, length) == [text |-> text, length |-> length]

NewPasswords == {Password("longer-one", 10), Password("short", 5)}

\* The addresses requests name: a is an activated user, b has registered and
\* holds the activation token 1, d is deactivated, x has no row.
Emails == {"a", "b", "d", "x"}

UserDb ==
    [NoDb EXCEPT
       !.user = [e \in {"a", "b", "d"} |->
                   IF e = "a" THEN User(TRUE, FALSE, Null, "null", bcryptHash(Password("first", 5)))
                   ELSE IF e = "b" THEN User(FALSE, FALSE, sha256Hex(1), "future", bcryptHash(Password("first", 5)))
                   ELSE User(TRUE, TRUE, Null, "null", bcryptHash(Password("first", 5)))],
       !.mail = {[to |-> "b", kind |-> "activation", token |-> 1]},
       !.issued = 1]

InitUser ==
    /\ Boot
    /\ call = NoCall
    /\ db = UserDb
    /\ task = [t \in Tasks |-> NoTask]

OkBody == [ok |-> TRUE, error |-> ""]

ErrorBody(error) == [ok |-> FALSE, error |-> error]

\* A handler of the user router that has answered.
Answered(op, email, token, status, body) ==
    [op |-> op, pc |-> "done", status |-> status, email |-> email, token |-> token,
     password |-> Null, body |-> body]

\* A handler of the user router waiting for its second query.
Waiting(op, pc, email, token, password) ==
    [op |-> op, pc |-> pc, status |-> 0, email |-> email, token |-> token,
     password |-> password, body |-> Null]

\* The next free handler slot.
starts(t) ==
    /\ task[t].pc = "idle"
    /\ \A q \in Tasks : q < t => task[q].pc # "idle"

\* core-auth-user.js 546-557: the rows user.forgotPassword.issueToken updates
issueTokenRows(d, email) ==
    {e \in DOMAIN d.user : e = email /\ d.user[e].activated /\ ~d.user[e].deactivated}

\* The answer of phase 1 that tells the caller whether a row was updated.
forgotResponse_enumerable(rows) ==
    IF rows = {} THEN [status |-> 404, body |-> ErrorBody("user not found")]
    ELSE [status |-> 200, body |-> OkBody]

\* core-auth-user.js 575-576
forgotResponse(rows) == [status |-> 200, body |-> OkBody]

\* core-auth-user.js 533-577: POST /forgotpassword without a token
ForgotIssueToken(t, email) ==
    /\ starts(t)
    /\ LET resetToken == randomToken(db)
           rows == issueTokenRows(db, email)
           answer == forgotResponse(rows)
       IN /\ db' = IF rows = {} THEN [db EXCEPT !.issued = resetToken]
                   ELSE [db EXCEPT !.issued = resetToken,
                                   !.user[email].token_hash = sha256Hex(resetToken),
                                   !.user[email].token_expiry = "future",
                                   !.mail = @ \cup {[to |-> email, kind |-> "password_reset",
                                                     token |-> resetToken]}]
          /\ task' = [task EXCEPT ![t] = Answered("forgotpassword.issueToken", email, Null,
                                                  answer.status, answer.body)]
    /\ UNCHANGED <<proc, exitCode, currentConfig, tables, watching, reloads, log, req, call>>

\* core-auth-user.js 427-433, 585-597: the rows the token lookups select
tokenRows(d, email, token) ==
    {e \in DOMAIN d.user : /\ e = email
                           /\ d.user[e].token_hash = sha256Hex(token)
                           /\ d.user[e].token_expiry = "future"}

\* core-auth-user.js 579-602: POST /forgotpassword with a token, up to the
\* answer of user.forgotPassword.validateToken
ForgotValidateToken(t, email, token, newPassword) ==
    /\ starts(t)
    /\ LET rows == {e \in tokenRows(db, email, token) : ~db.user[e].deactivated}
           op == "forgotpassword.setPassword"
       IN task' = [task EXCEPT ![t] =
             IF newPassword.length < 8
                 THEN Answered(op, email, token, 400, ErrorBody("new_password must be at least 8 chars"))
             ELSE IF rows = {}
                 THEN Answered(op, email, token, 400, ErrorBody("invalid or expired token"))
             ELSE Waiting(op, "setPassword", email, token, newPassword)]
    /\ UNCHANGED <<proc, exitCode, currentConfig, tables, watching, reloads, log, req, call, db>>

\* core-auth-user.js 604-618: user.forgotPassword.setPassword and the answer
ForgotSetPassword(t) ==
    /\ task[t].pc = "setPassword"
    /\ LET email == task[t].email
       IN db' = [db EXCEPT !.user[email].password_hash = bcryptHash(task[t].password),
                           !.user[email].token_hash = Null,
                           !.user[email].token_expiry = "null"]
    /\ task' = [task EXCEPT ![t] = Answered(task[t].op, task[t].email, task[t].token, 200, OkBody)]
    /\ UNCHANGED <<proc, exitCode, currentConfig, tables, watching, reloads, log, req, call>>

\* core-auth-user.js 425-440: POST /activate up to the answer of
\* user.activate.lookup
ActivateLookup(t, email, token) ==
    /\ starts(t)
    /\ LET rows == tokenRows(db, email, token)
       IN task' = [task EXCEPT ![t] =
             IF rows = {}
                 THEN Answered("activate", email, token, 400, ErrorBody("invalid or expired token"))
             ELSE IF db.user[email].deactivated
                 THEN Answered("activate", email, token, 403, ErrorBody("user deactivated"))
             ELSE Waiting("activate", "activate", email, token, Null)]
    /\ UNCHANGED <<proc, exitCode, currentConfig, tables, watching, reloads, log, req, call, db>>

\* core-auth-user.js 442-451: user.activate.update and the answer
ActivateUpdate(t) ==
    /\ task[t].pc = "activate"
    /\ LET email == task[t].email
       IN db' = [db EXCEPT !.user[email].activated = TRUE,
                           !.user[email].token_hash = Null,
                           !.user[email].token_expiry = "null"]
    /\ task' = [task EXCEPT ![t] = Answered(task[t].op, task[t].email, task[t].token, 200, OkBody)]
    /\ UNCHANGED <<proc, exitCode, currentConfig, tables, watching, reloads, log, req, call>>

\* core-auth-user.js 432, 592: now() passes the token_expiry of a row
TokenExpires(email) ==
    /\ email \in DOMAIN db.user
    /\ db.user[email].token_expiry = "future"
    /\ db' = [db EXCEPT !.user[email].token_expiry = "past"]
    /\ UNCHANGED <<proc, exitCode, currentConfig, tables, watching, reloads, log, req, call, task>>

\* The tokens a caller may present: any that was made, or one that was not.
Presented == (1..db.issued) \cup {BadToken}

NextForgot ==
    \/ \E t \in Tasks, e \in Emails : ForgotIssueToken(t, e)
    \/ \E t \in Tasks, e \in {"a", "b"}, k \in Presented, p \in NewPasswords :
          ForgotValidateToken(t, e, k, p)
    \/ \E t \in Tasks : ForgotSetPassword(t)
    \/ \E e \in Emails : TokenExpires(e)

SpecForgot == InitUser /\ [][NextForgot]_vars

NextToken ==
    \/ \E t \in Tasks, e \in {"a", "b"} : ForgotIssueToken(t, e)
    \/ \E t \in Tasks, e \in {"a", "b"}, k \in Presented :
          ForgotValidateToken(t, e, k, Password("longer-one", 10))
    \/ \E t \in Tasks : ForgotSetPassword(t)
    \/ \E t \in Tasks, e \in {"a", "b"}, k \in Presented : ActivateLookup(t, e, k)
    \/ \E t \in Tasks : ActivateUpdate(t)
    \/ \E e \in Emails : TokenExpires(e)

SpecToken == InitUser /\ [][NextToken]_vars

----------------------------------------------------------------------------
(* core-auth: sessions (core-auth-user.js, requireAuth) *)

\* A row of core_user_session; expiry is "future" or "past" relative to now().
Session(user_email, device_id, session_id, expiry) ==
    [user_email |-> user_email, device_id |-> device_id, session_id |-> session_id,
     expiry |-> expiry]

Devices == {"d1", "d2"}

\* Two activated users; a has logged in on two devices and c on one.
SessionDb ==
    [NoDb EXCEPT
       !.user = [e \in {"a", "c"} |->
                   User(TRUE, FALSE, Null, "null", bcryptHash(Password("first", 5)))],
       !.session = {Session("a", "d1", 1, "future"), Session("a", "d2", 2, "future"),
                    Session("c", "d1", 3, "future")},
       !.issued = 3]

InitSession ==
    /\ Boot
    /\ call = NoCall
    /\ db = SessionDb
    /\ task = [t \in Tasks |-> NoTask]

\* A request to a route behind requireAuth, or to /login: email is the
\* request.auth.email (for /login the body's), session and device the
\* cookies, at the number of sessions issued when the handler deleted.
Request(op, pc, status, email, session, device, at) ==
    [op |-> op, pc |-> pc, status |-> status, email |-> email, session |-> session,
     device |-> device, at |-> at]

\* core-auth-user.js 64-97: POST /login up to the password check
LoginLookup(t, email, valid) ==
    /\ starts(t)
    /\ LET status == IF email \notin DOMAIN db.user THEN 401
                     ELSE IF ~db.user[email].activated THEN 403
                     ELSE IF db.user[email].deactivated THEN 403
                     ELSE IF ~valid THEN 401
                     ELSE 0
       IN task' = [task EXCEPT ![t] =
                     IF status # 0 THEN Request("login", "done", status, email, 0, "", 0)
                     ELSE Request("login", "sessionInsert", 0, email, 0, "", 0)]
    /\ UNCHANGED <<proc, exitCode, currentConfig, tables, watching, reloads, log, req, call, db>>

\* core-auth-user.js 99-129: user.login.sessionInsert and the answer
LoginSessionInsert(t, deviceId) ==
    /\ task[t].pc = "sessionInsert"
    /\ LET sessionId == randomToken(db)
       IN /\ db' = [db EXCEPT !.issued = sessionId,
                              !.session = @ \cup {Session(task[t].email, deviceId, sessionId, "future")}]
          /\ task' = [task EXCEPT ![t] = Request("login", "done", 200, task[t].email, sessionId,
                                                 deviceId, 0)]
    /\ UNCHANGED <<proc, exitCode, currentConfig, tables, watching, reloads, log, req, call>>

\* part_000 175-185: the rows auth.sessionLookup selects
sessionLookup(d, sessionId) ==
    {s \in d.session : s.session_id = sessionId /\ s.expiry = "future"}

\* part_000 168-194: requireAuth up to the answer of auth.sessionLookup
AuthSessionLookup(t, op, sessionId, deviceId) ==
    /\ starts(t)
    /\ LET rows == sessionLookup(db, sessionId)
           session == CHOOSE s \in rows : TRUE
       IN task' = [task EXCEPT ![t] =
             IF rows = {} THEN Request(op, "done", 401, "", sessionId, deviceId, 0)
             ELSE IF session.device_id # deviceId
                 THEN Request(op, "done", 401, "", sessionId, deviceId, 0)
             ELSE Request(op, "userLookup", 0, session.user_email, sessionId, deviceId, 0)]
    /\ UNCHANGED <<proc, exitCode, currentConfig, tables, watching, reloads, log, req, call, db>>

\* part_000 196-213: auth.userLookup, request.auth and next()
AuthUserLookup(t) ==
    /\ task[t].pc = "userLookup"
    /\ LET email == task[t].email
           ok == /\ email \in DOMAIN db.user
                 /\ db.user[email].activated
                 /\ ~db.user[email].deactivated
       IN task' = IF ok THEN [task EXCEPT ![t].pc = task[t].op]
                  ELSE [task EXCEPT ![t].pc = "done", ![t].status = 401, ![t].email = ""]
    /\ UNCHANGED <<proc, exitCode, currentConfig, tables, watching, reloads, log, req, call, db>>

\* The sessions deleteAllUserSessions leaves when it deletes the caller's
\* own session only.
deleteAllUserSessions_currentOnly(sessions, email, sessionId) ==
    {s \in sessions : ~(s.user_email = email /\ s.session_id = sessionId)}

\* core-auth-user.js 52-58: the sessions left by user.session.deleteAll
deleteAllUserSessions(sessions, email, sessionId) ==
    {s \in sessions : s.user_email # email}

\* core-auth-user.js 223-253: POST /logout after requireAuth
Logout(t) ==
    /\ task[t].pc = "logout"
    /\ db' = [db EXCEPT !.session = {s \in @ : ~(/\ s.user_email = task[t].email
                                                 /\ s.session_id = task[t].session)}]
    /\ task' = [task EXCEPT ![t].pc = "done", ![t].status = 200, ![t].at = db.issued]
    /\ UNCHANGED <<proc, exitCode, currentConfig, tables, watching, reloads, log, req, call>>

\* core-auth-user.js 258-281: POST /logout-all after requireAuth
LogoutAll(t) ==
    /\ task[t].pc = "logout-all"
    /\ db' = [db EXCEPT !.session = deleteAllUserSessions(@, task[t].email, task[t].session)]
    /\ task' = [task EXCEPT ![t].pc = "done", ![t].status = 200, ![t].at = db.issued]
    /\ UNCHANGED <<proc, exitCode, currentConfig, tables, watching, reloads, log, req, call>>

\* part_000 181: now() passes the expiry of a session
SessionExpires(sessionId) ==
    /\ \E s \in db.session : s.session_id = sessionId /\ s.expiry = "future"
    /\ db' = [db EXCEPT !.session = {IF s.session_id = sessionId
                                     THEN [s EXCEPT !.expiry = "past"] ELSE s : s \in @}]
    /\ UNCHANGED <<proc, exitCode, currentConfig, tables, watching, reloads, log, req, call, task>>

NextSession ==
    \/ \E t \in Tasks, e \in {"a", "x"}, valid \in BOOLEAN : LoginLookup(t, e, valid)
    \/ \E t \in Tasks : LoginSessionInsert(t, "d1")
    \/ \E t \in Tasks, op \in {"logout", "logout-all"}, k \in 0..db.issued, d \in Devices :
          AuthSessionLookup(t, op, k, d)
    \/ \E t \in Tasks : AuthUserLookup(t)
    \/ \E t \in Tasks : Logout(t)
    \/ \E t \in Tasks : LogoutAll(t)
    \/ \E k \in 1..db.issued : SessionExpires(k)

SpecSession == InitSession /\ [][NextSession]_vars

----------------------------------------------------------------------------
(* Properties *)

\* p is a prefix of s, character by character (so "a" and "A" differ).
IsPrefixOf(p, s) == Len(p) <= Len(s) /\ \A k \in 1..Len(p) : s[k] = p[k]

MatchingRoutes(cfg, urlPath) ==
    {j \in 1..Len(cfg.routes) : IsPrefixOf(cfg.routes[j].match.path, urlPath)}

\* i is the route pickRoute must return: the first, in list order, of the
\* matching routes with the longest match.path; 0 (null) if none matches.
IsLongestPrefixRoute(cfg, urlPath, i) ==
    LET m == MatchingRoutes(cfg, urlPath)
        len(j) == Len(cfg.routes[j].match.path)
    IN IF m = {} THEN i = 0
       ELSE /\ i \in m
            /\ \A j \in m : len(j) <= len(i)
            /\ \A j \in m : len(j) = len(i) => i <= j

\* C1: for every validated table and every path, pickRoute returns the route
\* with the longest match.path that is a case-sensitive prefix of the path,
\* the first in the routes list among equally long ones, and null when no
\* route's match.path is a prefix of the path.
C1_LongestPrefixFirstWins ==
    (call.fn = "pickRoute" /\ call.done)
        => IsLongestPrefixRoute(call.cfg, call.urlPath, call.ret)

\* A call where a shorter matching route precedes the returned one and an
\* equally long matching route follows it.
C1_Witness ==
    /\ call.fn = "pickRoute"
    /\ call.done
    /\ call.ret # 0
    /\ LET m == MatchingRoutes(call.cfg, call.urlPath)
           len(j) == Len(call.cfg.routes[j].match.path)
       IN /\ \E j \in m : j < call.ret /\ len(j) < len(call.ret)
          /\ \E j \in m : j > call.ret /\ len(j) = len(call.ret)

\* What stripping prefix s from p must give.
StripExpected(p, s) ==
    IF IsPrefixOf(s, p)
    THEN LET rest == SubSeq(p, Len(s) + 1, Len(p))
         IN IF rest = <<>> THEN <<"/">>
            ELSE IF rest[1] # "/" THEN <<"/">> \o rest
            ELSE rest
    ELSE p

\* C7: with stripPrefix s set and no prepend, applyRewrite returns p without
\* its prefix s ("/" if nothing is left, "/" put in front if the rest does not
\* start with "/") when p starts with s, and p unchanged otherwise;
\* ("/api/v1/foo", "/api/v1") gives "/foo" and ("/api/v1", "/api/v1") gives "/".
C7_StripPrefix ==
    /\ (/\ call.fn = "applyRewrite"
        /\ call.done
        /\ call.rewrite.present
        /\ call.rewrite.stripPrefix # <<>>
        /\ call.rewrite.prepend = <<>>)
           => call.ret = StripExpected(call.url, call.rewrite.stripPrefix)
    /\ applyRewrite(<<"/", "a", "p", "i", "/", "v", "1", "/", "f", "o", "o">>,
                    Rewrite(<<"/", "a", "p", "i", "/", "v", "1">>, <<>>))
         = <<"/", "f", "o", "o">>
    /\ applyRewrite(<<"/", "a", "p", "i", "/", "v", "1">>,
                    Rewrite(<<"/", "a", "p", "i", "/", "v", "1">>, <<>>))
         = <<"/">>

\* A call whose URL starts with the prefix and continues without a "/".
C7_Witness ==
    /\ call.fn = "applyRewrite"
    /\ call.done
    /\ call.rewrite.present
    /\ call.rewrite.stripPrefix # <<>>
    /\ call.rewrite.prepend = <<>>
    /\ IsPrefixOf(call.rewrite.stripPrefix, call.url)
    /\ Len(call.url) > Len(call.rewrite.stripPrefix)
    /\ call.url[Len(call.rewrite.stripPrefix) + 1] # "/"
    /\ call.ret # call.url

\* s without its trailing slashes: the prefix of s that does not end in "/"
\* and is followed by slashes only.
WithoutTrailingSlashes(s) ==
    LET k == CHOOSE k \in 0..Len(s) :
                 /\ k = 0 \/ s[k] # "/"
                 /\ \A i \in (k + 1)..Len(s) : s[i] = "/"
    IN SubSeq(s, 1, k)

\* What prepending pre to p must give: p keeps its own leading "/", and one
\* is put between the two parts when p has none.
PrependExpected(p, pre) ==
    IF p # <<>> /\ p[1] = "/"
    THEN WithoutTrailingSlashes(pre) \o p
    ELSE WithoutTrailingSlashes(pre) \o <<"/">> \o p

FailsToLoad(file) ==
    \/ file.kind # "json"
    \/ ~file.value.isObject
    \/ file.value.defaultTarget.baseUrl = <<>>
    \/ /\ file.value.routesIsArray
       /\ \E i \in 1..Len(file.value.routes) :
            LET r == file.value.routes[i]
            IN \/ r.name = ""
               \/ r.match.type # "prefix"
               \/ r.match.path = <<>>
               \/ r.target.baseUrl = <<>>

\* The exchange r is routed against table t.
RoutedAgainst(r, t) ==
    /\ IsLongestPrefixRoute(t, req[r].inbound.path, req[r].route)
    /\ req[r].baseUrl = IF req[r].route = 0 THEN t.defaultTarget.baseUrl
                        ELSE t.routes[req[r].route].target.baseUrl
    /\ req[r].rewrite = IF req[r].route = 0 THEN NoRewrite
                        ELSE t.routes[req[r].route].rewrite

\* C2: a reload whose file fails to read, parse or validate leaves the active
\* table as it was (the same reference and the same table objects) and logs
\* an error; every request that arrives is routed against the table that is
\* active at its arrival, hence against the previous one after such a reload.
C2_FailedReloadKeepsTable ==
    /\ [][(\E file \in ConfigFiles : FailsToLoad(file) /\ WatchCallback(file))
            => /\ currentConfig' = currentConfig
               /\ tables' = tables
               /\ Len(log') = Len(log) + 1
               /\ log'[Len(log')].level = "error"]_vars
    /\ [][\A r \in Requests :
            (req[r].st = "idle" /\ req'[r].st # "idle")
              => /\ req'[r].cfg = currentConfig
                 /\ currentConfig' = currentConfig
                 /\ tables' = tables
                 /\ RoutedAgainst(r, tables[currentConfig])']_vars

\* After one reload, which failed, a request has arrived and completed
\* against the table loaded at startup.
C2_Witness ==
    /\ reloads = 1
    /\ log[Len(log)].level = "error"
    /\ currentConfig = 1
    /\ \E r \in Requests :
         /\ req[r].st = "completed"
         /\ req[r].seen = 1
         /\ req[r].cfg = 1

\* C3: each exchange has its route, its target baseUrl and its rewrite rule
\* from the one table it loaded on arrival, whole, and keeps them until it
\* ends, whatever reloads have published since.
C3_OneGenerationPerRequest ==
    \A r \in Requests :
        req[r].st # "idle"
          => /\ req[r].cfg \in 1..Len(tables)
             /\ req[r].cfg <= currentConfig
             /\ RoutedAgainst(r, tables[req[r].cfg])

\* An exchange still awaiting its upstream while a later generation, which
\* would route it differently, is current.
C3_Witness ==
    \E r \in Requests :
        /\ req[r].st = "forwarding"
        /\ req[r].cfg < currentConfig
        /\ req[r].seen < reloads
        /\ ~RoutedAgainst(r, tables[currentConfig])

\* C6: a request whose path matches no route of its table goes to that
\* table's defaultTarget.baseUrl without trailing slashes, followed by the
\* request's path and query as received.
C6_NoMatchGoesToDefault ==
    \A r \in Requests :
        (req[r].st # "idle" /\ MatchingRoutes(tables[req[r].cfg], req[r].inbound.path) = {})
          => /\ req[r].upCalls >= 1
             /\ req[r].targetUrl =
                   WithoutTrailingSlashes(tables[req[r].cfg].defaultTarget.baseUrl)
                     \o req[r].inbound.path \o req[r].inbound.query

\* An unmatched request with a query, under a default target that ends in
\* more than one slash.
C6_Witness ==
    \E r \in Requests :
        /\ req[r].st # "idle"
        /\ MatchingRoutes(tables[req[r].cfg], req[r].inbound.path) = {}
        /\ req[r].inbound.query # <<>>
        /\ LET b == tables[req[r].cfg].defaultTarget.baseUrl
           IN Len(b) >= 2 /\ b[Len(b)] = "/" /\ b[Len(b) - 1] = "/"

\* C4: when the upstream call fails before anything was sent to the caller,
\* the caller (still connected) receives one response, status 502 with the
\* body {"ok": false, "error": "bad gateway"}, and nothing of an upstream
\* response.
C4_BadGatewayOnUpstreamFailure ==
    \A r \in Requests :
        (req[r].st = "failed" /\ ~req[r].clientGone)
          => /\ req[r].res.statusLines = 1
             /\ req[r].res.statusCode = 502
             /\ req[r].res.body = [kind |-> "json", ok |-> FALSE, error |-> "bad gateway"]
             /\ req[r].res.ended
             /\ req[r].res.chunks = 0
             /\ DOMAIN req[r].res.headers = {}
             /\ req[r].upCalls = 1

\* An exchange answered 502 while the process keeps listening.
C4_Witness ==
    \E r \in Requests :
        /\ req[r].st = "failed"
        /\ ~req[r].clientGone
        /\ req[r].res.statusLines = 1
        /\ proc = "listening"

NineNames ==
    {"connection", "keep-alive", "proxy-authenticate", "proxy-authorization",
     "te", "trailer", "transfer-encoding", "upgrade", "host"}

\* The names in NineNames among the headers h, whatever their case.
HopByHopIn(h, names) == {n \in DOMAIN h : toLowerCase(n) \in names}

\* The exchange has given its headers to fetch.
Forwarded(r) == req[r].st # "idle"

\* The upstream's response head has been copied onto the caller's response.
Relayed(r) == req[r].st \in {"streaming", "completed", "aborted"}

LocationOf(up) ==
    IF \E i \in 1..Len(up.headers) : toLowerCase(up.headers[i].name) = "location"
    THEN up.headers[CHOOSE i \in 1..Len(up.headers) :
                        toLowerCase(up.headers[i].name) = "location"].value
    ELSE <<>>

\* C9: when the upstream answers 3xx, the response to the caller has that
\* status and the upstream's Location value, and no second upstream request
\* is made for the exchange.
C9_RedirectRelayedNotFollowed ==
    \A r \in Requests :
        (Relayed(r) /\ req[r].answered.status \in 300..399)
          => /\ req[r].res.statusCode = req[r].answered.status
             /\ "location" \in DOMAIN req[r].res.headers
             /\ req[r].res.headers["location"] = LocationOf(req[r].answered)
             /\ req[r].upCalls = 1

\* A 302 with a Location header has been relayed to a connected caller.
C9_Witness ==
    \E r \in Requests :
        /\ req[r].st = "completed"
        /\ req[r].answered.status = 302
        /\ LocationOf(req[r].answered) # <<>>
        /\ req[r].res.statusLines = 1
        /\ req[r].res.ended
        /\ ~req[r].clientGone

\* C10: no failure of a single request ends the process: whenever an
\* exchange has failed, was aborted or lost its caller, the process is
\* still listening.
C10_ProcessSurvivesRequestFailure ==
    (\E r \in Requests : req[r].st \in {"failed", "aborted"} \/ req[r].clientGone)
        => proc = "listening"

\* C11: when the upstream body stream fails after the status line and the
\* headers have gone out, the caller's connection is destroyed, and the
\* connection carries neither a second status line nor the 502 JSON body.
C11_StreamFailureDestroysConnection ==
    [][\A r \in Requests :
          /\ (/\ req[r].st = "streaming"
              /\ req[r].res.statusLines = 1
              /\ req'[r].st = "aborted")
             => /\ req'[r].res.destroyed
                /\ req'[r].res.statusLines = 1
                /\ req'[r].res.body # BadGatewayBody
                /\ ~req'[r].res.ended
          /\ req[r].st = "aborted" => req'[r].res = req[r].res]_vars

C11_Witness ==
    \E r \in Requests :
        /\ req[r].st = "aborted"
        /\ req[r].pulled > 0
        /\ ~req[r].clientGone
        /\ req[r].res.statusLines = 1
        /\ req[r].res.destroyed

\* C12: once the client has disconnected, the gateway aborts the upstream
\* request or stream: a pending upstream request is not turned into a relay,
\* and no further chunk of the upstream body is read for that exchange.
C12_DisconnectAbortsUpstream ==
    [][\A r \in Requests :
          req[r].clientGone =>
              /\ req'[r].pulled = req[r].pulled
              /\ req[r].st = "forwarding" => req'[r].st # "streaming"]_vars

\* The table a file that loads describes: its defaultTarget and its routes,
\* none when routes is not a list.
TableOf(file) ==
    [defaultTarget |-> file.value.defaultTarget,
     routes |-> IF file.value.routesIsArray THEN file.value.routes ELSE <<>>]

\* C13: a file-change event whose file reads, parses and validates makes the
\* file's table the active one in that one step, whatever reloads failed
\* before; every request that has arrived since the latest file-change event
\* is routed against the table that is active now.
C13_ValidReloadPublishedAtOnce ==
    /\ [][\A file \in ConfigFiles :
            (~FailsToLoad(file) /\ WatchCallback(file))
              => /\ currentConfig' \in 1..Len(tables')
                 /\ tables'[currentConfig'] = TableOf(file)
                 /\ log'[Len(log')] = LogEntry("info", "Reloaded gateway config")]_vars
    /\ [](\A r \in Requests :
            (req[r].st # "idle" /\ req[r].seen = reloads)
              => /\ req[r].cfg = currentConfig
                 /\ RoutedAgainst(r, tables[currentConfig]))

\* The first reload failed, the second published another table, and a
\* request that arrived after it is routed against that table and not as the
\* startup table would have routed it.
C13_Witness ==
    /\ reloads = 2
    /\ log[Len(log) - 1].level = "error"
    /\ log[Len(log)].level = "info"
    /\ currentConfig = 2
    /\ \E r \in Requests :
         /\ req[r].st = "completed"
         /\ req[r].seen = 2
         /\ req[r].cfg = 2
         /\ RoutedAgainst(r, tables[2])
         /\ ~RoutedAgainst(r, tables[1])

\* C14: the gateway listens and serves only after the configuration file has
\* been read and validated; when the initial read, parse or validation fails
\* the process exits with a non-zero status, and it has never listened nor
\* taken a request.
C14_ListensOnlyWithValidConfig ==
    /\ [][\A file \in ConfigFiles, watchOk \in BOOLEAN :
            Startup(file, watchOk)
              => IF FailsToLoad(file)
                 THEN /\ proc' = "exited"
                      /\ exitCode' # 0
                      /\ currentConfig' = 0
                 ELSE /\ proc' = "listening"
                      /\ currentConfig' = 1
                      /\ tables' = <<TableOf(file)>>]_vars
    /\ [][proc = "exited" => proc' = "exited"]_vars
    /\ [](proc \in {"starting", "exited"} => \A r \in Requests : req[r].st = "idle")
    /\ [](proc = "exited" => exitCode # 0)

\* The process has exited at startup on a file that does not load.
C14_Witness ==
    /\ proc = "exited"
    /\ exitCode = 1
    /\ currentConfig = 0
    /\ tables = <<>>
    /\ log = <<>>

\* C15: when the file watch cannot be established at startup, the gateway
\* logs a warning and listens all the same; the table loaded at startup
\* stays the active one, and every request is routed against it.
C15_WatchFailureIsNotFatal ==
    /\ [][\A file \in ConfigFiles :
            (~FailsToLoad(file) /\ Startup(file, FALSE))
              => /\ proc' = "listening"
                 /\ tables' = <<TableOf(file)>>
                 /\ currentConfig' = 1
                 /\ log'[Len(log')] = LogEntry("warn", "Config file watch not available")]_vars
    /\ []((proc = "listening" /\ ~watching)
            => /\ currentConfig = 1
               /\ Len(tables) = 1
               /\ \A r \in Requests :
                    req[r].st # "idle"
                      => req[r].cfg = 1 /\ RoutedAgainst(r, tables[1]))
    /\ [][(proc = "listening" /\ ~watching)
            => /\ proc' = "listening"
               /\ ~watching'
               /\ tables' = tables]_vars

\* Without a watch, the gateway has served a request against the startup
\* table.
C15_Witness ==
    /\ proc = "listening"
    /\ ~watching
    /\ log[Len(log)].level = "warn"
    /\ \E r \in Requests :
         /\ req[r].st = "completed"
         /\ req[r].cfg = 1
         /\ req[r].route # 0

\* The exchange r was answered by the health route: 200, the health body,
\* the response ended, and nothing was sent to an upstream.
AnsweredByGateway(r) ==
    /\ req[r].upCalls = 0
    /\ req[r].targetUrl = <<>>
    /\ req[r].st = "completed"
    /\ req[r].res.statusCode = 200
    /\ req[r].res.statusLines = 1
    /\ req[r].res.ended
    /\ req[r].inbound.method = "GET" => req[r].res.body = HealthBody

\* The exchange r went to the proxy pipeline: it was routed against its
\* table and a request to the upstream was issued.
Proxied(r) ==
    /\ req[r].upCalls >= 1
    /\ req[r].cfg = currentConfig
    /\ RoutedAgainst(r, tables[req[r].cfg])
    /\ req[r].res.body # HealthBody

IsHealthRequest(inbound) ==
    /\ inbound.method = "GET" \/ inbound.method = "HEAD"
    /\ \E p \in {healthPath, healthPath \o <<"/">>} :
         /\ Len(inbound.path) = Len(p)
         /\ \A i \in 1..Len(p) : lowerChar(inbound.path[i]) = p[i]

RECURSIVE Members(_, _)
Members(value, sep) ==
    IF \E i \in 1..Len(value) : value[i] = sep
    THEN LET i == CHOOSE i \in 1..Len(value) :
                      value[i] = sep /\ \A j \in 1..(i - 1) : value[j] # sep
         IN {SubSeq(value, 1, i - 1)} \cup Members(SubSeq(value, i + 1, Len(value)), sep)
    ELSE {value}

\* The headers h carry a header named n with value v: as a header of its
\* own for set-cookie, which cannot be folded into a list, and as the value
\* or a member of the list for every other name.
Carries(h, n, v) ==
    /\ n \in DOMAIN h
    /\ IF n = "set-cookie" THEN h[n] = v ELSE v \in Members(h[n], ", ")

\* C17: a relayed response has the upstream's status code and carries every
\* header the upstream sent, with its value, unless the header's name is one
\* of the nine names; no other header is left out.
C17_ResponseHeadersRelayed ==
    \A r \in Requests :
        Relayed(r) =>
            /\ req[r].res.statusCode = req[r].up.status
            /\ \A i \in 1..Len(req[r].up.headers) :
                 toLowerCase(req[r].up.headers[i].name) \notin NineNames
                   => Carries(req[r].res.headers,
                              toLowerCase(req[r].up.headers[i].name),
                              req[r].up.headers[i].value)

\* The two headers the gateway sets itself on every upstream request.
ForwardedNames == {"x-forwarded-proto", "x-forwarded-host"}

\* C18: every inbound header whose name is not one of the nine (the two
\* x-forwarded headers the gateway sets itself aside) is in the upstream
\* request with its inbound value, a header with the empty string as value
\* included; a header with several values is forwarded with all of them.
C18_InboundHeadersForwarded ==
    \A r \in Requests :
        Forwarded(r) =>
            \A i \in 1..Len(req[r].inbound.headers) :
                LET n == toLowerCase(req[r].inbound.headers[i].name)
                    v == req[r].inbound.headers[i].value
                IN n \notin NineNames \cup ForwardedNames
                     => /\ n \in DOMAIN req[r].upHeaders
                        /\ IF v.isArray
                           THEN \A j \in 1..Len(v.items) :
                                    v.items[j] \in Members(req[r].upHeaders[n], ",")
                           ELSE req[r].upHeaders[n] = v.items[1]

\* The value of the inbound Host header; the empty string if there is none.
InboundHost(inbound) ==
    IF \E i \in 1..Len(inbound.headers) : toLowerCase(inbound.headers[i].name) = "host"
    THEN LET i == CHOOSE i \in 1..Len(inbound.headers) :
                      toLowerCase(inbound.headers[i].name) = "host"
         IN inbound.headers[i].value.items[1]
    ELSE <<>>

\* C19: every upstream request carries x-forwarded-proto with the inbound
\* scheme and x-forwarded-host with the value of the inbound Host header
\* (the empty string if there is none), whatever the client sent under these
\* two names, and carries no host header copied from the inbound request.
C19_ForwardedHeadersSet ==
    \A r \in Requests :
        Forwarded(r) =>
            /\ ForwardedNames \subseteq DOMAIN req[r].upHeaders
            /\ req[r].upHeaders["x-forwarded-proto"] = <<req[r].inbound.protocol>>
            /\ req[r].upHeaders["x-forwarded-host"] = InboundHost(req[r].inbound)
            /\ "host" \notin DOMAIN req[r].upHeaders

\* One request whose client sent its own values for both headers, other
\* than the gateway's, and one request without a Host header over TLS.
C19_Witness ==
    \E r, q \in Requests :
        /\ Forwarded(r)
        /\ \E i, j \in 1..Len(req[r].inbound.headers) :
             /\ req[r].inbound.headers[i] = Header("X-Forwarded-Host", Str(<<"evil">>))
             /\ req[r].inbound.headers[j] = Header("X-Forwarded-Proto", Str(<<"https">>))
        /\ req[r].upHeaders["x-forwarded-host"] = <<"gw">>
        /\ req[r].upHeaders["x-forwarded-proto"] = <<"http">>
        /\ Forwarded(q)
        /\ InboundHost(req[q].inbound) = <<>>
        /\ req[q].upHeaders["x-forwarded-host"] = <<>>
        /\ req[q].upHeaders["x-forwarded-proto"] = <<"https">>

\* The route fails one of the checks on a route.
BadRouteObject(r) ==
    \/ r.name = ""
    \/ r.match.type # "prefix"
    \/ r.match.path = <<>>
    \/ r.target.baseUrl = <<>>

\* The error of the first check that fails, the checks taken in the order
\* object, defaultTarget, then the routes in list order and for each route
\* name, match, target.
FirstFailedCheck(cfg) ==
    IF ~cfg.isObject THEN "Config must be an object"
    ELSE IF cfg.defaultTarget.baseUrl = <<>>
         THEN "Config.defaultTarget.baseUrl is required"
    ELSE LET bad == {i \in 1..Len(cfg.routes) : BadRouteObject(cfg.routes[i])}
             r == cfg.routes[CHOOSE i \in bad : \A j \in bad : i <= j]
         IN IF r.name = "" THEN "Each route needs a name"
            ELSE IF r.match.type # "prefix" \/ r.match.path = <<>>
                 THEN "Route needs match.type=prefix and match.path"
            ELSE "Route needs target.baseUrl"

\* C20: validateConfig accepts exactly the objects with a defaultTarget.baseUrl
\* whose routes, if a list, all have a name, match.type "prefix", a
\* match.path and a target.baseUrl; what it accepts it returns with its
\* routes, or with no routes when routes is not a list; what it rejects it
\* rejects with the error of the first failed check, in the order object,
\* defaultTarget, each route in list order (name, match, target).
C20_ValidateConfigAcceptsExactly ==
    (call.fn = "validateConfig" /\ call.done) =>
        /\ call.ret.ok <=> ~FailsToLoad(Json(call.cfg))
        /\ call.ret.ok
             => call.ret.cfg =
                  [defaultTarget |-> call.cfg.defaultTarget,
                   routes |-> IF call.cfg.routesIsArray THEN call.cfg.routes ELSE <<>>]
        /\ ~call.ret.ok => call.ret.err = FirstFailedCheck(call.cfg)

\* A rejection for the first route's target although the second route has
\* no name.
C20_Witness ==
    /\ call.fn = "validateConfig"
    /\ call.done
    /\ ~call.ret.ok
    /\ call.cfg.routesIsArray
    /\ Len(call.cfg.routes) >= 2
    /\ call.cfg.routes[1].target.baseUrl = <<>>
    /\ call.cfg.routes[1].name # ""
    /\ call.cfg.routes[2].name = ""
    /\ call.ret.err = "Route needs target.baseUrl"

\* The log holds the error's message and stack.
Logged(err) ==
    \E i \in 1..Len(log) :
        /\ log[i].level = "error"
        /\ log[i].msg = "Unhandled error"
        /\ log[i].err = err.message
        /\ log[i].stack = err.stack

\* C21: every error response the gateway generates itself has the constant
\* body { ok: false, error: "bad gateway" }, so two exchanges that failed
\* with different errors got the same body; the error's message and stack
\* are in the log only.
C21_ErrorBodyIsConstant ==
    /\ \A r \in Requests :
         req[r].st = "failed" =>
             /\ Logged(req[r].failure)
             /\ req[r].res.body \in {NoBody, BadGatewayBody}
             /\ ~req[r].clientGone => req[r].res.body = BadGatewayBody
    /\ \A r, q \in Requests :
         (req[r].st = "failed" /\ req[q].st = "failed"
            /\ ~req[r].clientGone /\ ~req[q].clientGone)
           => req[r].res.body = req[q].res.body

\* Two exchanges failed with different errors, both logged, and both
\* callers got the same body.
C21_Witness ==
    \E r, q \in Requests :
        /\ req[r].st = "failed"
        /\ req[q].st = "failed"
        /\ req[r].failure = Refused
        /\ req[q].failure = NotFound
        /\ Logged(Refused)
        /\ Logged(NotFound)
        /\ req[r].res.body = BadGatewayBody
        /\ req[q].res.body = BadGatewayBody

\* C22: no table that is active, loaded at startup or by a reload, has two
\* routes with the same name.
C22_RouteNamesUnique ==
    proc = "listening" =>
        \A i, j \in 1..Len(tables[currentConfig].routes) :
            tables[currentConfig].routes[i].name = tables[currentConfig].routes[j].name
              => i = j

\* C23: whenever the gateway serves, whatever reloads succeeded or failed
\* before, the active table has a defaultTarget.baseUrl and each of its
\* routes has a name, match.type "prefix", a match.path and a
\* target.baseUrl.
C23_ActiveTableWellFormed ==
    proc = "listening" =>
        /\ currentConfig \in 1..Len(tables)
        /\ tables[currentConfig].defaultTarget.baseUrl # <<>>
        /\ \A i \in 1..Len(tables[currentConfig].routes) :
             ~BadRouteObject(tables[currentConfig].routes[i])

\* Serving a table with routes that a reload published after another reload
\* had failed.
C23_Witness ==
    /\ proc = "listening"
    /\ reloads = 2
    /\ currentConfig = 2
    /\ \E i \in 1..Len(log) : log[i].level = "error"
    /\ Len(tables[currentConfig].routes) >= 2

\* The steps of one exchange: received and matched on arrival, forwarding
\* while fetch is awaited, streaming while the body is relayed; completed,
\* failed and aborted are its ends.  A response without a body completes
\* without streaming.
ExchangeSteps ==
    {<<"idle", "forwarding">>,
     <<"forwarding", "streaming">>, <<"forwarding", "completed">>,
     <<"forwarding", "failed">>,
     <<"streaming", "completed">>, <<"streaming", "aborted">>}

ExchangeEnds == {"completed", "failed", "aborted"}

\* C24: an exchange moves forward only, from received and matched through
\* forwarding to streaming and completed, or to failed; it never leaves an
\* end state nor returns to an earlier one, and the gateway sends at most
\* one request upstream for it, also after a failure.
C24_ExchangeMovesForwardOnly ==
    [][\A r \in Requests :
          /\ req'[r].st # req[r].st => <<req[r].st, req'[r].st>> \in ExchangeSteps
          /\ req[r].st \in ExchangeEnds
               => /\ req'[r].st = req[r].st
                  /\ req'[r].upCalls = req[r].upCalls
          /\ req'[r].upCalls >= req[r].upCalls
          /\ req'[r].upCalls <= 1
          /\ req[r].st # "idle"
               => /\ req'[r].targetUrl = req[r].targetUrl
                  /\ req'[r].route = req[r].route]_vars

\* One exchange completed after streaming and one failed, each with one
\* upstream request.
C24_Witness ==
    \E r, q \in Requests :
        /\ req[r].st = "completed"
        /\ req[r].pulled > 0
        /\ req[r].upCalls = 1
        /\ req[q].st = "failed"
        /\ req[q].upCalls = 1

\* C25: no step (matching a request, relaying a response, a reload) changes
\* a table object that has been published: its defaultTarget and its routes,
\* in content and order, stay as they were; a reload adds a table and moves
\* the current reference only.
C25_PublishedTablesNeverModified ==
    [][/\ Len(tables') >= Len(tables)
       /\ \A i \in 1..Len(tables) :
            /\ tables'[i].defaultTarget = tables[i].defaultTarget
            /\ tables'[i].routes = tables[i].routes
       /\ Len(tables') > Len(tables)
            => /\ Len(tables') = Len(tables) + 1
               /\ currentConfig' = Len(tables')]_vars

\* Requests were matched against the startup table, one of them to its
\* second route, a reload has published another table, and the startup
\* table is as the file gave it.
C25_Witness ==
    /\ Len(tables) = 2
    /\ currentConfig = 2
    /\ tables[1] = TableOf(Json(TableA))
    /\ \E r \in Requests :
         /\ req[r].st = "completed"
         /\ req[r].cfg = 1
         /\ req[r].route = 2

\* C26: the gateway takes the next chunk from the upstream only when the
\* caller's connection can accept more, so the chunks it holds for one
\* exchange never exceed what the connection buffers, whatever the size of
\* the body and the pace of the caller.
C26_RelayHonoursBackpressure ==
    /\ \A r \in Requests : req[r].res.buffered <= writableHighWaterMark
    /\ [][\A r \in Requests :
            req'[r].pulled > req[r].pulled
              => req[r].res.buffered < writableHighWaterMark]_vars

\* The active members with a privileged role.
ActivePrivileged ==
    {u \in DOMAIN db.tenantUser :
        /\ db.tenantUser[u].role \in {"owner", "administrator"}
        /\ ~db.tenantUser[u].deactivated}

\* C27: a tenant with an active owner or administrator keeps at least one
\* through every /user/update and /user/deactivate, also when two of them,
\* by different administrators, interleave between the count and the update.
C27_PrivilegedMemberRemains ==
    [][ActivePrivileged # {} => ActivePrivileged' # {}]_vars

\* The handler that started in this step, a phase-1 /forgotpassword.
ForgotStarted(t) ==
    /\ task[t].pc = "idle"
    /\ task'[t].op = "forgotpassword.issueToken"

\* C28: POST /forgotpassword without a token answers 200 {"ok": true} for
\* every well-formed email, and stores and mails a reset token exactly when
\* the email is that of an activated user who is not deactivated.
C28_ResetRequestAnswersAlike ==
    [][\A t \in Tasks : ForgotStarted(t) =>
          LET email == task'[t].email
              known == /\ email \in DOMAIN db.user
                       /\ db.user[email].activated
                       /\ ~db.user[email].deactivated
              stored == db'.user # db.user
              mailed == db'.mail # db.mail
          IN /\ task'[t].status = 200
             /\ task'[t].body = [ok |-> TRUE, error |-> ""]
             /\ stored <=> known
             /\ mailed <=> known
             /\ mailed => \E m \in db'.mail \ db.mail :
                             /\ m.to = email
                             /\ db'.user[email].token_hash = <<"sha256", m.token>>]_vars

\* C28 witness: two reset requests were answered, one for the activated user
\* a, who was mailed a token, and one for an address with no row.
C28_Witness ==
    /\ \E t \in Tasks : /\ task[t].op = "forgotpassword.issueToken"
                        /\ task[t].email = "a" /\ task[t].status = 200
    /\ \E t \in Tasks : /\ task[t].op = "forgotpassword.issueToken"
                        /\ task[t].email = "x" /\ task[t].status = 200
    /\ \E m \in db.mail : m.to = "a" /\ m.kind = "password_reset"
    /\ \A m \in db.mail : m.to # "x"

\* A handler that accepted the token it was presented with.
Accepted(t) ==
    /\ task[t].op \in {"activate", "forgotpassword.setPassword"}
    /\ task[t].status = 200

\* C30: an activation or password-reset token is accepted at most once: of
\* the /activate and token-phase /forgotpassword requests that present the
\* same token for the same user, at most one succeeds.
C30_TokenAcceptedAtMostOnce ==
    \A t1 \in Tasks, t2 \in Tasks :
        (/\ Accepted(t1) /\ Accepted(t2)
         /\ task[t1].email = task[t2].email
         /\ task[t1].token = task[t2].token) => t1 = t2

\* The request that starts in this step passes the session lookup of
\* requireAuth as user e with the session id k.
Authenticates(t, e, k) ==
    /\ task[t].pc = "idle"
    /\ task'[t].pc = "userLookup"
    /\ task'[t].email = e
    /\ task'[t].session = k

\* The handler q has answered a /logout or /logout-all with 200.
LoggedOut(q, op) ==
    /\ task[q].op = op
    /\ task[q].pc = "done"
    /\ task[q].status = 200

\* The sessions of everybody but e.
SessionsOfOthers(d, e) == {s \in d.session : s.user_email # e}

\* C29: once a /logout has succeeded, no later request authenticates with
\* the session id it was made with; once a /logout-all has succeeded, no
\* later request authenticates as that user with a session id issued before
\* it; and neither operation changes a session row of another user.
C29_LoggedOutSessionsRejected ==
    [][/\ \A t \in Tasks, q \in Tasks :
             LoggedOut(q, "logout") => ~Authenticates(t, task'[t].email, task[q].session)
       /\ \A t \in Tasks, q \in Tasks, k \in 1..db.issued :
             (LoggedOut(q, "logout-all") /\ k <= task[q].at)
                 => ~Authenticates(t, task[q].email, k)
       /\ \A q \in Tasks :
             (task[q].pc \in {"logout", "logout-all"} /\ task'[q].pc = "done")
                 => SessionsOfOthers(db', task[q].email) = SessionsOfOthers(db, task[q].email)]_vars

\* C29 witness: a /logout-all of user a has succeeded, a later request with
\* one of a's earlier sessions was answered 401, and the session of c is
\* still there.
C29_Witness ==
    \E q \in Tasks, t \in Tasks :
        /\ LoggedOut(q, "logout-all") /\ task[q].email = "a"
        /\ q < t
        /\ task[t].pc = "done" /\ task[t].status = 401
        /\ task[t].session \in {1, 2} /\ task[t].session # task[q].session
        /\ task[t].device = (IF task[t].session = 1 THEN "d1" ELSE "d2")
        /\ \E s \in db.session : s.user_email = "c" /\ s.session_id = 3

============================================================================
